---- MODULE Spec2Model ----
(***************************************************************************)
(* A model of sunlight-meter: the TSL2591 driver (enable/gain/timing       *)
(* state, channel reads, lux calculation, gain search), the sampling job   *)
(* started and stopped over HTTP, and the recorder that drains the         *)
(* results channel into sqlite.                                            *)
(*                                                                         *)
(* float64 values are modelled as exact rationals n/d (d > 0, lowest       *)
(* terms) together with the IEEE special values NaN, +Inf and -Inf; the    *)
(* rounding of float64 arithmetic is not modelled.                         *)
(***************************************************************************)
EXTENDS Integers, Sequences, FiniteSets, TLC

(***************************************************************************)
(* Bounds of the model.                                                    *)
(***************************************************************************)
\* Sampling executions spawned in one run.
MaxJobs == 2
\* Channel reads started by the job loops in one run.
MaxReads == 2
\* Saturated readings the sensor returns to the job loops in one run.
MaxOverflows == 1
\* Bus transfers (register reads and writes) that fail in one run.
MaxBusFaults == 1
\* Stop handlers that are between cancel() and their deferred Disable().
MaxPendingStops == 1

(***************************************************************************)
(* Constants of tsl2591/constants.go.                                      *)
(***************************************************************************)
TSL2591_VISIBLE == 2
TSL2591_INFRARED == 1
TSL2591_FULLSPECTRUM == 0
TSL2591_COMMAND_BIT == 160
TSL2591_ENABLE_POWEROFF == 0
TSL2591_ENABLE_POWERON == 1
TSL2591_ENABLE_AEN == 2
TSL2591_ENABLE_AIEN == 16
TSL2591_ENABLE_NPIEN == 128
TSL2591_LUX_DF == 408
TSL2591_REGISTER_ENABLE == 0
TSL2591_REGISTER_CONTROL == 1
TSL2591_REGISTER_DEVICE_ID == 18
TSL2591_REGISTER_CHAN0_LOW == 20
TSL2591_INTEGRATIONTIME_100MS == 0
TSL2591_INTEGRATIONTIME_200MS == 1
TSL2591_INTEGRATIONTIME_300MS == 2
TSL2591_INTEGRATIONTIME_400MS == 3
TSL2591_INTEGRATIONTIME_500MS == 4
TSL2591_INTEGRATIONTIME_600MS == 5
TSL2591_GAIN_LOW == 0
TSL2591_GAIN_MED == 16
TSL2591_GAIN_HIGH == 32
TSL2591_GAIN_MAX == 48
\* 0xFFFF, the saturated channel count and the normalisation divisor.
ChannelMax == 65535

Gains == {TSL2591_GAIN_LOW, TSL2591_GAIN_MED, TSL2591_GAIN_HIGH, TSL2591_GAIN_MAX}
Timings == {TSL2591_INTEGRATIONTIME_100MS, TSL2591_INTEGRATIONTIME_200MS,
            TSL2591_INTEGRATIONTIME_300MS, TSL2591_INTEGRATIONTIME_400MS,
            TSL2591_INTEGRATIONTIME_500MS, TSL2591_INTEGRATIONTIME_600MS}

(***************************************************************************)
(* float64 arithmetic.                                                     *)
(***************************************************************************)
Abs(x) == IF x < 0 THEN -x ELSE x

RECURSIVE Gcd(_, _)
Gcd(a, b) == IF b = 0 THEN a ELSE Gcd(b, a % b)

NaN == [k |-> "NaN", n |-> 0, d |-> 1]
PosInf == [k |-> "PosInf", n |-> 0, d |-> 1]
NegInf == [k |-> "NegInf", n |-> 0, d |-> 1]

\* The float64 with the value n/d, d # 0.
Fin(n, d) ==
    LET g == Gcd(Abs(n), Abs(d))
        s == IF d < 0 THEN -1 ELSE 1
    IN  [k |-> "Fin", n |-> s * (n \div g), d |-> s * (d \div g)]

\* float64(x) of an integer x.
Float(x) == Fin(x, 1)

IsFin(x) == x.k = "Fin"
Sign(x) ==
    CASE x.k = "PosInf" -> 1
      [] x.k = "NegInf" -> -1
      [] x.k = "Fin" -> (IF x.n > 0 THEN 1 ELSE IF x.n < 0 THEN -1 ELSE 0)
      [] OTHER -> 0
InfOfSign(s) == IF s > 0 THEN PosInf ELSE NegInf

\* math.IsInf(x, 1)
IsInf1(x) == x.k = "PosInf"

FNeg(x) ==
    CASE x.k = "PosInf" -> NegInf
      [] x.k = "NegInf" -> PosInf
      [] x.k = "Fin" -> Fin(-x.n, x.d)
      [] OTHER -> NaN

FAdd(x, y) ==
    CASE x.k = "NaN" \/ y.k = "NaN" -> NaN
      [] IsFin(x) /\ IsFin(y) ->
            LET g == Gcd(x.d, y.d)
            IN  Fin(x.n * (y.d \div g) + y.n * (x.d \div g), (x.d \div g) * y.d)
      [] IsFin(x) -> y
      [] IsFin(y) -> x
      [] OTHER -> IF x.k = y.k THEN x ELSE NaN

FSub(x, y) == FAdd(x, FNeg(y))

FMul(x, y) ==
    CASE x.k = "NaN" \/ y.k = "NaN" -> NaN
      [] IsFin(x) /\ IsFin(y) ->
            LET g1 == Gcd(Abs(x.n), y.d)
                g2 == Gcd(Abs(y.n), x.d)
            IN  Fin((x.n \div g1) * (y.n \div g2), (x.d \div g2) * (y.d \div g1))
      [] OTHER -> IF Sign(x) = 0 \/ Sign(y) = 0 THEN NaN
                  ELSE InfOfSign(Sign(x) * Sign(y))

FDiv(x, y) ==
    CASE x.k = "NaN" \/ y.k = "NaN" -> NaN
      [] IsFin(x) /\ IsFin(y) ->
            IF y.n = 0
            THEN (IF x.n = 0 THEN NaN ELSE InfOfSign(Sign(x)))
            ELSE FMul(x, Fin(y.d, y.n))
      [] IsFin(y) -> InfOfSign(Sign(x) * (IF Sign(y) < 0 THEN -1 ELSE 1))
      [] IsFin(x) -> Float(0)
      [] OTHER -> NaN

\* x < y and x == y on float64: every comparison with NaN is false.
Rank(x) == IF x.k = "PosInf" THEN 1 ELSE IF x.k = "NegInf" THEN -1 ELSE 0
FLess(x, y) ==
    CASE x.k = "NaN" \/ y.k = "NaN" -> FALSE
      [] IsFin(x) /\ IsFin(y) -> x.n * y.d < y.n * x.d
      [] OTHER -> Rank(x) < Rank(y)
FEq(x, y) == x.k # "NaN" /\ y.k # "NaN" /\ x = y

(***************************************************************************)
(* fmt.Sprintf("%.5f", x) and fmt.Sprintf("%.5e", x): the decimal digits,  *)
(* computed by long division and rounded half up at the last digit kept.   *)
(***************************************************************************)
Pow10(k) == CASE k = 0 -> 1 [] k = 1 -> 10 [] k = 2 -> 100 [] k = 3 -> 1000
              [] k = 4 -> 10000 [] k = 5 -> 100000 [] OTHER -> 1000000

\* The first k decimal digits of r/d (0 <= r < d) as a number, and the
\* remainder left after them.
RECURSIVE Digits(_, _, _)
Digits(r, d, k) ==
    IF k = 0 THEN [v |-> 0, r |-> r]
    ELSE LET q == (r * 10) \div d
             rest == Digits((r * 10) % d, d, k - 1)
         IN  [v |-> q * Pow10(k - 1) + rest.v, r |-> rest.r]

\* "%.5f": sign, integer part and the five fractional digits.
Sprintf5f(x) ==
    IF ~IsFin(x) THEN [k |-> x.k, neg |-> FALSE, ip |-> 0, fp |-> 0]
    ELSE LET a == Abs(x.n)
             dg == Digits(a % x.d, x.d, 5)
             up == 2 * dg.r >= x.d
             fp == dg.v + (IF up THEN 1 ELSE 0)
         IN  [k |-> "Fin", neg |-> x.n < 0,
              ip |-> (a \div x.d) + (IF fp = 100000 THEN 1 ELSE 0),
              fp |-> IF fp = 100000 THEN 0 ELSE fp]

\* The least k >= 0 with n * 10^k >= d, for 0 < n.
RECURSIVE Shift(_, _)
Shift(n, d) == IF n >= d THEN 0 ELSE 1 + Shift(n * 10, d)

\* "%.5e" of 0 <= x < 10: the six significant digits and the exponent.
Sprintf5e(x) ==
    IF ~IsFin(x) THEN [k |-> x.k, mant |-> 0, exp |-> 0]
    ELSE IF x.n = 0 THEN [k |-> "Fin", mant |-> 0, exp |-> 0]
    ELSE LET e == Shift(x.n, x.d)
             m == x.n * Pow10(e)
             dg == Digits(m % x.d, x.d, 5)
             up == 2 * dg.r >= x.d
             mant == (m \div x.d) * 100000 + dg.v + (IF up THEN 1 ELSE 0)
         IN  IF mant = 1000000
             THEN [k |-> "Fin", mant |-> 100000, exp |-> 1 - e]
             ELSE [k |-> "Fin", mant |-> mant, exp |-> -e]

(***************************************************************************)
(* The TSL2591 driver.  A device value is the in-memory state              *)
(* [Enabled, Gain, Timing] of a TSL2591; every operation returns the new   *)
(* device value, its error and the bus transfers it made.  busOk tells     *)
(* whether the register transfer of the call succeeds.                     *)
(***************************************************************************)
RECURSIVE BitOr(_, _)
BitOr(a, b) ==
    IF a = 0 THEN b
    ELSE IF b = 0 THEN a
    ELSE (IF a % 2 = 1 \/ b % 2 = 1 THEN 1 ELSE 0) + 2 * BitOr(a \div 2, b \div 2)

Dev(enabled, gain, timing) == [Enabled |-> enabled, Gain |-> gain, Timing |-> timing]
Write(reg, val) == [op |-> "write", reg |-> BitOr(TSL2591_COMMAND_BIT, reg), val |-> val]
Read(reg) == [op |-> "read", reg |-> BitOr(TSL2591_COMMAND_BIT, reg), val |-> 0]
Ret(dev, err, bus) == [dev |-> dev, err |-> err, bus |-> bus]

EnableByte ==
    BitOr(BitOr(TSL2591_ENABLE_POWERON, TSL2591_ENABLE_AEN),
          BitOr(TSL2591_ENABLE_AIEN, TSL2591_ENABLE_NPIEN))

\* An Enable that writes the enable register whatever the state.
EnableAlways(dev, busOk) ==
    IF ~busOk THEN Ret(dev, "BusError", <<Write(TSL2591_REGISTER_ENABLE, EnableByte)>>)
    ELSE Ret([dev EXCEPT !.Enabled = TRUE], "nil",
             <<Write(TSL2591_REGISTER_ENABLE, EnableByte)>>)

Enable(dev, busOk) ==
    IF dev.Enabled THEN Ret(dev, "nil", <<>>)
    ELSE IF ~busOk THEN Ret(dev, "BusError", <<Write(TSL2591_REGISTER_ENABLE, EnableByte)>>)
    ELSE Ret([dev EXCEPT !.Enabled = TRUE], "nil",
             <<Write(TSL2591_REGISTER_ENABLE, EnableByte)>>)

\* A Disable that clears Enabled whether the write succeeded or not.
DisableOptimistic(dev, busOk) ==
    IF ~dev.Enabled THEN Ret(dev, "nil", <<>>)
    ELSE Ret([dev EXCEPT !.Enabled = FALSE], IF busOk THEN "nil" ELSE "BusError",
             <<Write(TSL2591_REGISTER_ENABLE, TSL2591_ENABLE_POWEROFF)>>)

Disable(dev, busOk) ==
    IF ~dev.Enabled THEN Ret(dev, "nil", <<>>)
    ELSE IF ~busOk
         THEN Ret(dev, "BusError", <<Write(TSL2591_REGISTER_ENABLE, TSL2591_ENABLE_POWEROFF)>>)
    ELSE Ret([dev EXCEPT !.Enabled = FALSE], "nil",
             <<Write(TSL2591_REGISTER_ENABLE, TSL2591_ENABLE_POWEROFF)>>)

\* A SetGain that writes the gain bits alone.
SetGainOverwrite(dev, gain, busOk) ==
    IF ~dev.Enabled THEN Ret(dev, "NotEnabled", <<>>)
    ELSE IF ~busOk THEN Ret(dev, "BusError", <<Write(TSL2591_REGISTER_CONTROL, gain)>>)
    ELSE Ret([dev EXCEPT !.Gain = gain], "nil", <<Write(TSL2591_REGISTER_CONTROL, gain)>>)

SetGain(dev, gain, busOk) ==
    IF ~dev.Enabled THEN Ret(dev, "NotEnabled", <<>>)
    ELSE IF ~busOk
         THEN Ret(dev, "BusError", <<Write(TSL2591_REGISTER_CONTROL, BitOr(dev.Timing, gain))>>)
    ELSE Ret([dev EXCEPT !.Gain = gain], "nil",
             <<Write(TSL2591_REGISTER_CONTROL, BitOr(dev.Timing, gain))>>)

\* A SetTiming that does not test Enabled.
SetTimingUnchecked(dev, timing, busOk) ==
    IF ~busOk
    THEN Ret(dev, "BusError", <<Write(TSL2591_REGISTER_CONTROL, BitOr(timing, dev.Gain))>>)
    ELSE Ret([dev EXCEPT !.Timing = timing], "nil",
             <<Write(TSL2591_REGISTER_CONTROL, BitOr(timing, dev.Gain))>>)

SetTiming(dev, timing, busOk) ==
    IF ~dev.Enabled THEN Ret(dev, "NotEnabled", <<>>)
    ELSE IF ~busOk
         THEN Ret(dev, "BusError", <<Write(TSL2591_REGISTER_CONTROL, BitOr(timing, dev.Gain))>>)
    ELSE Ret([dev EXCEPT !.Timing = timing], "nil",
             <<Write(TSL2591_REGISTER_CONTROL, BitOr(timing, dev.Gain))>>)

\* A decoding that takes the first byte as the high one.
BigEndianUint16(bytes, i) == 256 * bytes[i + 1] + bytes[i + 2]

\* binary.LittleEndian.Uint16(bytes[i:]), bytes indexed from 0 as in the source.
LittleEndianUint16(bytes, i) == bytes[i + 1] + 256 * bytes[i + 2]

\* The 4-byte block the channel registers hold for the counts (ch0, ch1).
Block(ch0, ch1) == <<ch0 % 256, ch0 \div 256, ch1 % 256, ch1 \div 256>>

\* GetFullLuminosity once the settle delay is over: the block read and its
\* decoding.  (The Enabled check before the delay is GetFullLuminosityCheck.)
GetFullLuminosityCheck(dev) == IF ~dev.Enabled THEN "NotEnabled" ELSE "nil"
GetFullLuminosityRead(bytes, busOk) ==
    IF ~busOk
    THEN [ch0 |-> 0, ch1 |-> 0, err |-> "BusError", bus |-> <<Read(TSL2591_REGISTER_CHAN0_LOW)>>]
    ELSE [ch0 |-> LittleEndianUint16(bytes, 0), ch1 |-> LittleEndianUint16(bytes, 2),
          err |-> "nil", bus |-> <<Read(TSL2591_REGISTER_CHAN0_LOW)>>]

\* GetFullLuminosity as one call: the test of Enabled, then the block read.
GetFullLuminosity(dev, bytes, busOk) ==
    IF GetFullLuminosityCheck(dev) # "nil"
    THEN [ch0 |-> 0, ch1 |-> 0, err |-> GetFullLuminosityCheck(dev), bus |-> <<>>]
    ELSE GetFullLuminosityRead(bytes, busOk)

\* An integration time that ignores the timing code.
IntTimeShortest(timing) == 100

IntTime(timing) ==
    CASE timing = TSL2591_INTEGRATIONTIME_100MS -> 100
      [] timing = TSL2591_INTEGRATIONTIME_200MS -> 200
      [] timing = TSL2591_INTEGRATIONTIME_300MS -> 300
      [] timing = TSL2591_INTEGRATIONTIME_400MS -> 400
      [] timing = TSL2591_INTEGRATIONTIME_500MS -> 500
      [] timing = TSL2591_INTEGRATIONTIME_600MS -> 600
      [] OTHER -> 100

AdjGain(gain) ==
    CASE gain = TSL2591_GAIN_LOW -> 1
      [] gain = TSL2591_GAIN_MED -> 25
      [] gain = TSL2591_GAIN_HIGH -> 428
      [] gain = TSL2591_GAIN_MAX -> 9876
      [] OTHER -> 1

\* A saturation test that looks at channel 0 only.
OverflowedChannel0(ch0, ch1) == ch0 = ChannelMax

Overflowed(ch0, ch1) == ch0 = ChannelMax \/ ch1 = ChannelMax

\* A calculation whose outcome depends on the Enabled flag.
CalculateLuxWhenEnabled(dev, ch0, ch1) ==
    [lux |-> Float(0), err |-> IF dev.Enabled THEN "nil" ELSE "NotEnabled"]

\* A calculation without the factor 1 - ch1/ch0.
CalculateLuxLinear(dev, ch0, ch1) ==
    IF Overflowed(ch0, ch1) THEN [lux |-> Float(0), err |-> "Overflow"]
    ELSE LET cpl == FDiv(FMul(Float(IntTime(dev.Timing)), Float(AdjGain(dev.Gain))),
                         Float(TSL2591_LUX_DF))
         IN  [lux |-> FDiv(FSub(Float(ch0), Float(ch1)), cpl), err |-> "nil"]

CalculateLux(dev, ch0, ch1) ==
    IF Overflowed(ch0, ch1) THEN [lux |-> Float(0), err |-> "Overflow"]
    ELSE LET cpl == FDiv(FMul(Float(IntTime(dev.Timing)), Float(AdjGain(dev.Gain))),
                         Float(TSL2591_LUX_DF))
             lux == FDiv(FMul(FSub(Float(ch0), Float(ch1)),
                              FSub(Float(1), FDiv(Float(ch1), Float(ch0)))),
                         cpl)
         IN  [lux |-> lux, err |-> "nil"]

\* A normalisation that does not clamp the visible part at zero.
GetNormalizedOutputUnclamped(spectrumType, ch0, ch1) ==
    CASE spectrumType = TSL2591_VISIBLE ->
            FDiv(FSub(Float(ch0), Float(ch1)), Float(ChannelMax))
      [] spectrumType = TSL2591_INFRARED -> FDiv(Float(ch1), Float(ChannelMax))
      [] spectrumType = TSL2591_FULLSPECTRUM -> FDiv(Float(ch0), Float(ChannelMax))
      [] OTHER -> Float(0)

GetNormalizedOutput(spectrumType, ch0, ch1) ==
    CASE spectrumType = TSL2591_VISIBLE ->
            LET visible == FSub(Float(ch0), Float(ch1))
            IN  FDiv(IF FLess(visible, Float(0)) THEN Float(0) ELSE visible,
                     Float(ChannelMax))
      [] spectrumType = TSL2591_INFRARED -> FDiv(Float(ch1), Float(ChannelMax))
      [] spectrumType = TSL2591_FULLSPECTRUM -> FDiv(Float(ch0), Float(ChannelMax))
      [] OTHER -> Float(0)

\* NewTSL2591(gain, timing, path) for a bus on which the device-ID register
\* read gives idOk/idByte and the three register writes give okT, okG, okD.
\* The errors of SetTiming, SetGain and Disable are not looked at.
NewTSL2591(gain, timing, idOk, idByte, okT, okG, okD) ==
    IF ~idOk THEN [dev |-> Dev(TRUE, 0, 0), err |-> "Failed to read ref"]
    ELSE IF idByte # 80 THEN [dev |-> Dev(TRUE, 0, 0), err |-> "Can't find a TSL2591"]
    ELSE LET t0 == Dev(TRUE, 0, 0)
             t1 == SetTiming(t0, timing, okT).dev
             t2 == SetGain(t1, gain, okG).dev
             t3 == Disable(t2, okD).dev
         IN  [dev |-> t3, err |-> "nil"]

(***************************************************************************)
(* SetOptimalGain.  env gives what the bus does during the search: for     *)
(* combination k (gain k \div 6, integration time k % 6, in the order of   *)
(* the two option lists) the counts read, and whether each transfer        *)
(* succeeds.                                                               *)
(***************************************************************************)
gainOptions == <<TSL2591_GAIN_LOW, TSL2591_GAIN_MED, TSL2591_GAIN_HIGH, TSL2591_GAIN_MAX>>
integrationOptions ==
    <<TSL2591_INTEGRATIONTIME_600MS, TSL2591_INTEGRATIONTIME_500MS,
      TSL2591_INTEGRATIONTIME_400MS, TSL2591_INTEGRATIONTIME_300MS,
      TSL2591_INTEGRATIONTIME_200MS, TSL2591_INTEGRATIONTIME_100MS>>
Combinations == Len(gainOptions) * Len(integrationOptions)
GainAt(k) == gainOptions[(k \div Len(integrationOptions)) + 1]
TimeAt(k) == integrationOptions[(k % Len(integrationOptions)) + 1]

RECURSIVE Search(_, _, _)
Search(dev, k, env) ==
    IF k = Combinations
    THEN LET d1 == SetGain(dev, TSL2591_GAIN_LOW, env.writeOk).dev
             d2 == SetTiming(d1, TSL2591_INTEGRATIONTIME_600MS, env.writeOk).dev
         IN  [dev |-> d2, err |-> "All gain options are saturated", tried |-> k]
    ELSE LET d1 == IF k % Len(integrationOptions) = 0
                   THEN SetGain(dev, GainAt(k), env.writeOk).dev
                   ELSE dev
             d2 == SetTiming(d1, TimeAt(k), env.writeOk).dev
             r == GetFullLuminosityRead(Block(env.rd[k + 1][1], env.rd[k + 1][2]),
                                        env.readOk[k + 1])
             c == CalculateLux(d2, r.ch0, r.ch1)
         IN  IF GetFullLuminosityCheck(d2) # "nil" THEN Search(d2, k + 1, env)
             ELSE IF r.err # "nil" THEN Search(d2, k + 1, env)
             ELSE IF Overflowed(r.ch0, r.ch1) THEN Search(d2, k + 1, env)
             ELSE IF c.err # "nil" THEN Search(d2, k + 1, env)
             ELSE IF FEq(c.lux, Float(0)) THEN Search(d2, k + 1, env)
             ELSE [dev |-> d2, err |-> "nil", tried |-> k + 1]

SetOptimalGain(dev, env) == Search(dev, 0, env)

(***************************************************************************)
(* The meter: SLMeter, its Start and Stop handlers, the job loop that      *)
(* Start spawns and MonitorAndRecordResults.                               *)
(***************************************************************************)
VARIABLES
    hasDevice,    \* m.TSL2591 != nil
    tsl,          \* *m.TSL2591: Enabled, Gain, Timing
    cancel,       \* m.cancel: 0 (nil) or the execution whose context it cancels
    ctx,          \* per execution: its context, "none" | "live" | "cancelled" | "expired"
    pc,           \* per execution: where its goroutine is
    jobID,        \* per execution: its jobID (0 before uuid.New())
    pending,      \* per execution: the LuxResults it is about to send
    stopPending,  \* Stop handlers whose deferred Disable has not run yet
    recPc,        \* MonitorAndRecordResults: "recv" | "insert"
    result,       \* MonitorAndRecordResults: the result received
    db,           \* the rows of table sunlight, in insertion order
    emitted,      \* history: the results sent on LuxResultsChan, in order
    failed,       \* history: the indices in emitted whose INSERT failed
    reads,        \* channel reads the job loops have started
    overflows,    \* saturated readings returned to the job loops
    faults,       \* bus transfers that failed
    lx,           \* the CalculateLux call of SpecLux: inputs and output
    gs,           \* the SetOptimalGain call of SpecGain: where it is and its result
    readLog,      \* history: what each loop iteration's read came to, in read order
    boot,         \* main(): the entry point, where it is and what it logged
    lk,           \* SpecLock: who holds tsl.Mutex and where each goroutine is
    call,         \* SpecDriver: the driver call made last and what it returned
    probe,        \* SpecProbe: the NewTSL2591 call, its bus and what it returned
    hist          \* SpecConditions: the getHistoricalConditions call and its result

vars == <<hasDevice, tsl, cancel, ctx, pc, jobID, pending, stopPending,
          recPc, result, db, emitted, failed, reads, overflows, faults, lx, gs, readLog, boot, lk, call, probe, hist>>

ExecIds == 1 .. MaxJobs
Spawned == {e \in ExecIds : pc[e] # "none"}
\* The executions whose goroutine has been spawned and has not returned.
Alive == {e \in ExecIds : pc[e] \notin {"none", "done"}}
\* Those among them whose context is neither cancelled nor past its deadline.
Running == {e \in Alive : ctx[e] \in {"none", "live"}}

LuxResults(lux, visible, infrared, fullSpectrum, id) ==
    [Lux |-> lux, Infrared |-> infrared, Visible |-> visible,
     FullSpectrum |-> fullSpectrum, JobID |-> id]
\* A LuxResults{} that carries no job id.
SentinelAnonymous(id) == LuxResults(Float(0), Float(0), Float(0), Float(0), 0)
\* LuxResults{JobID: jobID}
Sentinel(id) == LuxResults(Float(0), Float(0), Float(0), Float(0), id)
NoResult == LuxResults(Float(0), Float(0), Float(0), Float(0), 0)

\* What the bus may do with the next transfer.
BusOutcomes == IF faults < MaxBusFaults THEN {TRUE, FALSE} ELSE {TRUE}
Faulted(r, busOk) == IF ~busOk /\ r.bus # <<>> THEN 1 ELSE 0

\* The counts the channel registers may hold when they are read: daylight,
\* darkness, channel 0 dark only, channel 0 saturated.
Readings == {<<10000, 2000>>, <<0, 0>>, <<0, 5>>, <<ChannelMax, 100>>}
Unsaturated == {r \in Readings : ~Overflowed(r[1], r[2])}
Saturated == Readings \ Unsaturated

\* The bus during one gain search: saturated counts for the first n
\* combinations and the counts good from then on, every transfer succeeding.
SearchEnv(n, bad, good) ==
    [rd |-> [i \in 1 .. Combinations |-> IF i <= n THEN bad ELSE good],
     readOk |-> [i \in 1 .. Combinations |-> TRUE],
     writeOk |-> TRUE]
\* The searches end at the first, the second or the eighth combination, or
\* run out of combinations.
SearchStops == {0, 1, 7, Combinations}
SearchEnvs ==
    {SearchEnv(n, bad, <<10000, 2000>>) : n \in SearchStops, bad \in Saturated}

\* The state after main() built the meter: the sensor probe may have failed
\* (no device), and each of the probe's register writes may have failed.
MeterInit ==
    /\ hasDevice \in BOOLEAN
    /\ \E okT, okG, okD \in BOOLEAN :
         LET n == (IF okT THEN 0 ELSE 1) + (IF okG THEN 0 ELSE 1) + (IF okD THEN 0 ELSE 1)
         IN  /\ n <= MaxBusFaults
             /\ IF hasDevice
                THEN /\ tsl = NewTSL2591(TSL2591_GAIN_LOW, TSL2591_INTEGRATIONTIME_300MS,
                                         TRUE, 80, okT, okG, okD).dev
                     /\ faults = n
                ELSE /\ tsl = Dev(FALSE, 0, 0)
                     /\ faults = 0
    /\ cancel = 0
    /\ ctx = [e \in ExecIds |-> "none"]
    /\ pc = [e \in ExecIds |-> "none"]
    /\ jobID = [e \in ExecIds |-> 0]
    /\ pending = [e \in ExecIds |-> NoResult]
    /\ stopPending = 0
    /\ recPc = "recv"
    /\ result = NoResult
    /\ db = <<>>
    /\ emitted = <<>>
    /\ failed = {}
    /\ reads = 0
    /\ overflows = 0
    /\ readLog = <<>>

\* One iteration's read: the loop, how the read ended ("sample", "failure"
\* or "overflow") and the result the loop goes on to send, if any.
ReadEntry(e, kind, res) == [job |-> e, kind |-> kind, res |-> res]

NoOutput == [lux |-> Float(0), err |-> "none"]
LxIdle == [ch0 |-> 0, ch1 |-> 0, gain |-> 0, timing |-> 0, out |-> NoOutput,
           on |-> FALSE, again |-> NoOutput, onAgain |-> FALSE]

\* No SetOptimalGain call is being followed step by step.
GsIdle == [pc |-> "idle", k |-> 0, err |-> "none", lux |-> Float(0), stopped |-> FALSE]

\* main() of part_000 has built the meter and serves requests.
BootServing ==
    [main |-> "part_000", ssl |-> FALSE, pc |-> "serving", probe |-> "none",
     tries |-> 0, slept |-> 0, err |-> "nil", recorder |-> TRUE, fatal |-> "none",
     attempts |-> 1, last |-> "nil", handle |-> TRUE]

\* tsl.Mutex is free and no goroutine is followed through a driver call.
LockThreads == {1, 2}
LkIdle == [mu |-> 0, th |-> [t \in LockThreads |-> [op |-> "none", pc |-> "idle", arg |-> 0]]]

\* No driver call is looked at on its own.
CallIdle ==
    [op |-> "none", arg |-> 0, err |-> "none", bus |-> <<>>, block |-> <<>>,
     ch0 |-> 0, ch1 |-> 0, out |-> <<>>, ctl |-> -1, ctlFailed |-> FALSE, n |-> 0]

\* No NewTSL2591 call is looked at on its own.
ProbeIdle ==
    [gain |-> 0, timing |-> 0, openOk |-> TRUE, idOk |-> TRUE, idByte |-> 0,
     okT |-> TRUE, okG |-> TRUE, okD |-> TRUE,
     err |-> "none", dev |-> Dev(FALSE, 0, 0), returned |-> FALSE]

\* No getHistoricalConditions call is looked at on its own.
NoConditions ==
    [AverageLuxInRange |-> Float(0), FullSunlightInRange |-> Float(0),
     RecordedHoursInRange |-> Float(0), LightConditionInRange |-> ""]
HistIdle ==
    [db |-> TRUE, avg |-> Float(0), minutes |-> 0, span |-> 0,
     scanOk |-> TRUE, queryOk |-> TRUE, parseOk |-> TRUE,
     conditions |-> NoConditions, err |-> "none", returned |-> FALSE]

Init ==
    /\ MeterInit /\ lx = LxIdle /\ gs = GsIdle /\ boot = BootServing /\ lk = LkIdle
    /\ call = CallIdle /\ probe = ProbeIdle /\ hist = HistIdle

devVars == <<hasDevice, tsl, faults>>
execVars == <<cancel, ctx, pc, jobID, pending, reads, overflows>>
recVars == <<recPc, result, db, emitted, failed>>

\* A Start() that does not look at m.TSL2591.
StartResponseUnchecked == IF tsl.Enabled THEN "AlreadyRunning" ELSE "OK"

\* What the handler Start() answers in the current state.
StartResponse ==
    IF ~hasDevice THEN "DeviceAbsent"
    ELSE IF tsl.Enabled THEN "AlreadyRunning"
    ELSE "OK"

\* What the handler Stop() answers in the current state; a nil m.cancel
\* panics, which handleServerPanic turns into a 500.
StopResponse ==
    IF ~hasDevice THEN "DeviceAbsent"
    ELSE IF ~tsl.Enabled THEN "NotRunning"
    ELSE IF cancel = 0 THEN "Panic"
    ELSE "OK"

\* The handler Start() returns: after the two checks it spawns the goroutine.
\* A rejected request changes nothing.
StartRequest ==
    /\ StartResponse = "OK"
    /\ Cardinality(Spawned) < MaxJobs
    /\ pc' = [pc EXCEPT ![Cardinality(Spawned) + 1] = "spawned"]
    /\ UNCHANGED <<devVars, cancel, ctx, jobID, pending, reads, overflows,
                   stopPending, recVars, lx, gs, readLog, boot, lk, call, probe, hist>>

\* The handler Stop() returns, up to its response: after the two checks it
\* calls m.cancel().  A nil m.cancel panics; the deferred Disable runs all
\* the same.  A rejected request changes nothing.
StopRequest ==
    /\ StopResponse \in {"OK", "Panic"}
    /\ stopPending < MaxPendingStops
    /\ stopPending' = stopPending + 1
    /\ IF StopResponse = "Panic"
       THEN UNCHANGED ctx
       ELSE ctx' = [ctx EXCEPT ![cancel] = IF @ = "live" THEN "cancelled" ELSE @]
    /\ UNCHANGED <<devVars, cancel, pc, jobID, pending, reads, overflows,
                   recVars, lx, gs, readLog, boot, lk, call, probe, hist>>

\* The deferred m.Disable() of a Stop handler.
StopDisable ==
    /\ stopPending > 0
    /\ stopPending' = stopPending - 1
    /\ \E busOk \in BusOutcomes :
         LET r == Disable(tsl, busOk)
         IN  tsl' = r.dev /\ faults' = faults + Faulted(r, busOk)
    /\ UNCHANGED <<hasDevice, execVars, recVars, lx, gs, readLog, boot, lk, call, probe, hist>>

\* The timer of context.WithTimeout(..., MAX_JOB_DURATION) fires.
DeadlineExpire(e) ==
    /\ ctx[e] = "live"
    /\ ctx' = [ctx EXCEPT ![e] = "expired"]
    /\ UNCHANGED <<devVars, cancel, pc, jobID, pending, reads, overflows,
                   stopPending, recVars, lx, gs, readLog, boot, lk, call, probe, hist>>

(***************************************************************************)
(* The goroutine Start() spawns.                                           *)
(***************************************************************************)
At(e, where) == pc[e] = where
Goto(e, where) == pc' = [pc EXCEPT ![e] = where]

\* ctx, cancel := context.WithTimeout(...); m.cancel = cancel
ExecInit(e) ==
    /\ At(e, "spawned")
    /\ ctx' = [ctx EXCEPT ![e] = "live"]
    /\ cancel' = e
    /\ Goto(e, "enable")
    /\ UNCHANGED <<devVars, jobID, pending, reads, overflows, stopPending,
                   recVars, lx, gs, readLog, boot, lk, call, probe, hist>>

\* m.Enable(); defer m.Disable(); jobID := uuid.New().String(); the ticker.
\* The uuid of execution e is e.
ExecEnable(e) ==
    /\ At(e, "enable")
    /\ \E busOk \in BusOutcomes :
         LET r == Enable(tsl, busOk)
         IN  tsl' = r.dev /\ faults' = faults + Faulted(r, busOk)
    /\ jobID' = [jobID EXCEPT ![e] = e]
    /\ Goto(e, "top")
    /\ UNCHANGED <<hasDevice, cancel, ctx, pending, reads, overflows,
                   stopPending, recVars, lx, gs, readLog, boot, lk, call, probe, hist>>

\* A loop that reads the sensor without looking at its context.
ExecTopUnchecked(e) ==
    /\ At(e, "top")
    /\ reads < MaxReads
    /\ reads' = reads + 1
    /\ Goto(e, "read")
    /\ UNCHANGED <<devVars, cancel, ctx, jobID, pending, overflows,
                   stopPending, recVars, lx, gs, readLog, boot, lk, call, probe, hist>>

\* The select at the top of the loop: return when ctx is done, else go on to
\* read the sensor.
ExecTop(e) ==
    /\ At(e, "top")
    /\ IF ctx[e] # "live"
       THEN Goto(e, "exit") /\ UNCHANGED reads
       ELSE /\ reads < MaxReads
            /\ reads' = reads + 1
            /\ Goto(e, "read")
    /\ UNCHANGED <<devVars, cancel, ctx, jobID, pending, overflows,
                   stopPending, recVars, lx, gs, readLog, boot, lk, call, probe, hist>>

\* GetFullLuminosity up to its settle delay: the Enabled check.  When it
\* fails the loop is about to send LuxResults{JobID: jobID}.
ExecReadCheck(e) ==
    /\ At(e, "read")
    /\ IF GetFullLuminosityCheck(tsl) # "nil"
       THEN /\ Goto(e, "send")
            /\ pending' = [pending EXCEPT ![e] = Sentinel(jobID[e])]
            /\ readLog' = Append(readLog, ReadEntry(e, "failure", Sentinel(jobID[e])))
       ELSE Goto(e, "settle") /\ UNCHANGED <<pending, readLog>>
    /\ UNCHANGED <<devVars, cancel, ctx, jobID, reads, overflows,
                   stopPending, recVars, lx, gs, boot, lk, call, probe, hist>>

\* GetFullLuminosity after the delay, and CalculateLux on what it read.
ExecReadBus(e) ==
    /\ At(e, "settle")
    /\ \E busOk \in BusOutcomes :
       \E rd \in (IF overflows < MaxOverflows THEN Readings ELSE Unsaturated) :
         LET r == GetFullLuminosityRead(Block(rd[1], rd[2]), busOk)
             c == CalculateLux(tsl, r.ch0, r.ch1)
             sample == LuxResults(c.lux,
                                  GetNormalizedOutput(TSL2591_VISIBLE, r.ch0, r.ch1),
                                  GetNormalizedOutput(TSL2591_INFRARED, r.ch0, r.ch1),
                                  GetNormalizedOutput(TSL2591_FULLSPECTRUM, r.ch0, r.ch1),
                                  jobID[e])
         IN  /\ faults' = faults + Faulted(r, busOk)
             /\ IF r.err # "nil"
                THEN /\ Goto(e, "send")
                     /\ pending' = [pending EXCEPT ![e] = Sentinel(jobID[e])]
                     /\ readLog' = Append(readLog, ReadEntry(e, "failure", Sentinel(jobID[e])))
                     /\ UNCHANGED overflows
                ELSE IF c.err # "nil"
                THEN /\ Goto(e, "calibrate")
                     /\ overflows' = overflows + 1
                     /\ readLog' = Append(readLog, ReadEntry(e, "overflow", NoResult))
                     /\ UNCHANGED pending
                ELSE /\ Goto(e, "send")
                     /\ pending' = [pending EXCEPT ![e] = sample]
                     /\ readLog' = Append(readLog, ReadEntry(e, "sample", sample))
                     /\ UNCHANGED overflows
    /\ UNCHANGED <<hasDevice, tsl, cancel, ctx, jobID, reads, stopPending,
                   recVars, lx, gs, boot, lk, call, probe, hist>>

\* err = m.SetOptimalGain(): the whole search, in one step of the loop.
ExecCalibrate(e) ==
    /\ At(e, "calibrate")
    /\ \E env \in SearchEnvs : tsl' = SetOptimalGain(tsl, env).dev
    /\ Goto(e, "sleep")
    /\ UNCHANGED <<hasDevice, faults, cancel, ctx, jobID, pending, reads, overflows,
                   stopPending, recVars, lx, gs, readLog, boot, lk, call, probe, hist>>

\* A loop that returns after the gain search.
ExecSleepReturn(e) ==
    /\ At(e, "sleep")
    /\ Goto(e, "exit")
    /\ UNCHANGED <<devVars, cancel, ctx, jobID, pending, reads, overflows,
                   stopPending, recVars, lx, gs, readLog, boot, lk, call, probe, hist>>

\* time.Sleep(5 * time.Second); continue
ExecSleep(e) ==
    /\ At(e, "sleep")
    /\ Goto(e, "top")
    /\ UNCHANGED <<devVars, cancel, ctx, jobID, pending, reads, overflows,
                   stopPending, recVars, lx, gs, readLog, boot, lk, call, probe, hist>>

\* m.LuxResultsChan <- ...: the channel is unbuffered, so the send completes
\* together with the receive of MonitorAndRecordResults.
ExecSend(e) ==
    /\ At(e, "send")
    /\ recPc = "recv"
    /\ result' = pending[e]
    /\ recPc' = "insert"
    /\ emitted' = Append(emitted, pending[e])
    /\ pending' = [pending EXCEPT ![e] = NoResult]
    /\ Goto(e, "wait")
    /\ UNCHANGED <<devVars, cancel, ctx, jobID, reads, overflows,
                   stopPending, db, failed, lx, gs, readLog, boot, lk, call, probe, hist>>

\* A loop that sends one more result before it waits for the tick.
ExecTickResend(e) ==
    /\ At(e, "wait")
    /\ Goto(e, "send")
    /\ pending' = [pending EXCEPT ![e] = Sentinel(jobID[e])]
    /\ UNCHANGED <<devVars, cancel, ctx, jobID, reads, overflows,
                   stopPending, recVars, lx, gs, readLog, boot, lk, call, probe, hist>>

\* <-ticker.C
ExecTick(e) ==
    /\ At(e, "wait")
    /\ Goto(e, "top")
    /\ UNCHANGED <<devVars, cancel, ctx, jobID, pending, reads, overflows,
                   stopPending, recVars, lx, gs, readLog, boot, lk, call, probe, hist>>

\* return: the deferred m.Disable() runs and the goroutine ends.
ExecExit(e) ==
    /\ At(e, "exit")
    /\ \E busOk \in BusOutcomes :
         LET r == Disable(tsl, busOk)
         IN  tsl' = r.dev /\ faults' = faults + Faulted(r, busOk)
    /\ Goto(e, "done")
    /\ UNCHANGED <<hasDevice, cancel, ctx, jobID, pending, reads, overflows,
                   stopPending, recVars, lx, gs, readLog, boot, lk, call, probe, hist>>

(***************************************************************************)
(* MonitorAndRecordResults, after a receive: the +Inf check and the INSERT.*)
(***************************************************************************)
Row(res) ==
    [job_id |-> res.JobID,
     lux |-> Sprintf5f(res.Lux),
     full_spectrum |-> Sprintf5e(res.FullSpectrum),
     visible |-> Sprintf5e(res.Visible),
     infrared |-> Sprintf5e(res.Infrared)]

\* A recorder that skips nothing.
SkippedNever(res) == FALSE

\* Whether MonitorAndRecordResults skips the result before the INSERT.
Skipped(res) == IsInf1(res.Lux)

\* A recorder that returns after an INSERT that failed.
AfterFailedInsertReturn == "returned"

\* Where MonitorAndRecordResults goes after an INSERT that failed: it logs
\* the error and loops.
AfterFailedInsert == "recv"

RecInsert ==
    /\ recPc = "insert"
    /\ IF Skipped(result)
       THEN recPc' = "recv" /\ UNCHANGED <<db, failed>>
       ELSE \E execOk \in BOOLEAN :
              IF execOk
              THEN recPc' = "recv" /\ db' = Append(db, Row(result)) /\ UNCHANGED failed
              ELSE /\ recPc' = AfterFailedInsert
                   /\ failed' = failed \cup {Len(emitted)}
                   /\ UNCHANGED db
    /\ result' = NoResult
    /\ UNCHANGED <<devVars, execVars, stopPending, emitted, lx, gs, readLog, boot, lk, call, probe, hist>>

Next ==
    \/ StartRequest
    \/ StopRequest
    \/ StopDisable
    \/ RecInsert
    \/ \E e \in ExecIds :
         \/ DeadlineExpire(e)
         \/ ExecInit(e)
         \/ ExecEnable(e)
         \/ ExecTop(e)
         \/ ExecReadCheck(e)
         \/ ExecReadBus(e)
         \/ ExecCalibrate(e)
         \/ ExecSleep(e)
         \/ ExecSend(e)
         \/ ExecTick(e)
         \/ ExecExit(e)

Spec == Init /\ [][Next]_vars

(***************************************************************************)
(* The meter when nobody calls Stop.                                       *)
(***************************************************************************)
NextNoStop ==
    \/ StartRequest
    \/ RecInsert
    \/ \E e \in ExecIds :
         \/ DeadlineExpire(e)
         \/ ExecInit(e)
         \/ ExecEnable(e)
         \/ ExecTop(e)
         \/ ExecReadCheck(e)
         \/ ExecReadBus(e)
         \/ ExecCalibrate(e)
         \/ ExecSleep(e)
         \/ ExecSend(e)
         \/ ExecTick(e)
         \/ ExecExit(e)

SpecNoStop == Init /\ [][NextNoStop]_vars

(***************************************************************************)
(* CalculateLux on its own: one call on counts and a configuration drawn   *)
(* from bounded sets.                                                      *)
(***************************************************************************)
ChannelPairs ==
    Readings \cup {<<7, 7>>, <<65534, 0>>, <<65534, 65534>>, <<0, 65534>>,
                   <<2000, 10000>>, <<0, ChannelMax>>, <<ChannelMax, ChannelMax>>}

LuxInit ==
    /\ MeterInit
    /\ gs = GsIdle
    /\ boot = BootServing
    /\ lk = LkIdle
    /\ call = CallIdle
    /\ probe = ProbeIdle
    /\ hist = HistIdle
    /\ \E p \in ChannelPairs, g \in Gains, t \in Timings :
         lx = [LxIdle EXCEPT !.ch0 = p[1], !.ch1 = p[2], !.gain = g, !.timing = t]

\* lux, err := tsl.CalculateLux(ch0, ch1), the device being enabled or not.
LuxCall ==
    /\ lx.out = NoOutput
    /\ \E en \in BOOLEAN :
         lx' = [lx EXCEPT !.out = CalculateLux(Dev(en, lx.gain, lx.timing), lx.ch0, lx.ch1),
                          !.on = en]
    /\ UNCHANGED <<devVars, execVars, stopPending, recVars, gs, readLog, boot, lk, call, probe, hist>>

\* The same call once more, the device being enabled or not.
LuxCallAgain ==
    /\ lx.out # NoOutput
    /\ lx.again = NoOutput
    /\ \E en \in BOOLEAN :
         lx' = [lx EXCEPT !.again = CalculateLux(Dev(en, lx.gain, lx.timing), lx.ch0, lx.ch1),
                          !.onAgain = en]
    /\ UNCHANGED <<devVars, execVars, stopPending, recVars, gs, readLog, boot, lk, call, probe, hist>>

LuxNext == LuxCall \/ LuxCallAgain

SpecLux == LuxInit /\ [][LuxNext]_vars

(***************************************************************************)
(* SetOptimalGain on its own, one call followed statement by statement: a  *)
(* device with some gain and timing, enabled when the call starts, a bus   *)
(* that may fail, and a Disable (of Stop or of a loop that exits) that may *)
(* run between two statements, since the search does not hold the lock.   *)
(***************************************************************************)
GainReadings == Readings \cup {<<7, 7>>}

GainInit ==
    /\ hasDevice = TRUE
    /\ \E g \in Gains, t \in Timings : tsl = Dev(TRUE, g, t)
    /\ faults = 0
    /\ cancel = 0
    /\ ctx = [e \in ExecIds |-> "none"]
    /\ pc = [e \in ExecIds |-> "none"]
    /\ jobID = [e \in ExecIds |-> 0]
    /\ pending = [e \in ExecIds |-> NoResult]
    /\ stopPending = 0
    /\ recPc = "recv"
    /\ result = NoResult
    /\ db = <<>>
    /\ emitted = <<>>
    /\ failed = {}
    /\ reads = 0
    /\ overflows = 0
    /\ readLog = <<>>
    /\ lx = LxIdle
    /\ gs = [GsIdle EXCEPT !.pc = "gain"]
    /\ boot = BootServing
    /\ lk = LkIdle
    /\ call = CallIdle
    /\ probe = ProbeIdle
    /\ hist = HistIdle

gainFrame == <<hasDevice, execVars, stopPending, recVars, lx, readLog, boot, lk, call, probe, hist>>

\* A continue that tries the same combination again.
GsRetry == [gs EXCEPT !.pc = "timing"]

\* continue: the next combination, or the defaults after the last one.
GsContinue ==
    [gs EXCEPT !.k = @ + 1,
               !.pc = IF gs.k + 1 = Combinations THEN "defGain"
                      ELSE IF (gs.k + 1) % Len(integrationOptions) = 0 THEN "gain"
                      ELSE "timing"]

\* tsl.SetGain(gain)
GsSetGain ==
    /\ gs.pc = "gain"
    /\ \E busOk \in BusOutcomes :
         LET r == SetGain(tsl, GainAt(gs.k), busOk)
         IN  tsl' = r.dev /\ faults' = faults + Faulted(r, busOk)
    /\ gs' = [gs EXCEPT !.pc = "timing"]
    /\ UNCHANGED gainFrame

\* tsl.SetTiming(time)
GsSetTiming ==
    /\ gs.pc = "timing"
    /\ \E busOk \in BusOutcomes :
         LET r == SetTiming(tsl, TimeAt(gs.k), busOk)
         IN  tsl' = r.dev /\ faults' = faults + Faulted(r, busOk)
    /\ gs' = [gs EXCEPT !.pc = "check"]
    /\ UNCHANGED gainFrame

\* tsl.GetFullLuminosity() up to its settle delay.
GsReadCheck ==
    /\ gs.pc = "check"
    /\ gs' = IF GetFullLuminosityCheck(tsl) # "nil" THEN GsContinue
              ELSE [gs EXCEPT !.pc = "bus"]
    /\ UNCHANGED <<devVars, gainFrame>>

\* tsl.GetFullLuminosity() after the delay, the saturation test,
\* tsl.CalculateLux and the test lux == 0.
GsReadBus ==
    /\ gs.pc = "bus"
    /\ \E busOk \in BusOutcomes, rd \in GainReadings :
         LET r == GetFullLuminosityRead(Block(rd[1], rd[2]), busOk)
             c == CalculateLux(tsl, r.ch0, r.ch1)
         IN  /\ faults' = faults + Faulted(r, busOk)
             /\ gs' = IF r.err # "nil" THEN GsContinue
                       ELSE IF Overflowed(r.ch0, r.ch1) THEN GsContinue
                       ELSE IF c.err # "nil" THEN GsContinue
                       ELSE IF FEq(c.lux, Float(0)) THEN GsContinue
                       ELSE [gs EXCEPT !.pc = "done", !.err = "nil", !.lux = c.lux]
    /\ UNCHANGED <<hasDevice, tsl, gainFrame>>

\* tsl.SetGain(TSL2591_GAIN_LOW)
GsDefaultGain ==
    /\ gs.pc = "defGain"
    /\ \E busOk \in BusOutcomes :
         LET r == SetGain(tsl, TSL2591_GAIN_LOW, busOk)
         IN  tsl' = r.dev /\ faults' = faults + Faulted(r, busOk)
    /\ gs' = [gs EXCEPT !.pc = "defTiming"]
    /\ UNCHANGED gainFrame

\* tsl.SetTiming(TSL2591_INTEGRATIONTIME_600MS); return errors.New(...)
GsDefaultTiming ==
    /\ gs.pc = "defTiming"
    /\ \E busOk \in BusOutcomes :
         LET r == SetTiming(tsl, TSL2591_INTEGRATIONTIME_600MS, busOk)
         IN  tsl' = r.dev /\ faults' = faults + Faulted(r, busOk)
    /\ gs' = [gs EXCEPT !.pc = "done", !.err = "All gain options are saturated"]
    /\ UNCHANGED gainFrame

\* m.Disable() of a Stop handler or of another loop, during the search.
GsDisable ==
    /\ gs.pc \notin {"idle", "done"}
    /\ ~gs.stopped
    /\ \E busOk \in BusOutcomes :
         LET r == Disable(tsl, busOk)
         IN  tsl' = r.dev /\ faults' = faults + Faulted(r, busOk)
    /\ gs' = [gs EXCEPT !.stopped = TRUE]
    /\ UNCHANGED gainFrame

GainNext ==
    \/ GsSetGain
    \/ GsSetTiming
    \/ GsReadCheck
    \/ GsReadBus
    \/ GsDefaultGain
    \/ GsDefaultTiming
    \/ GsDisable

SpecGain == GainInit /\ [][GainNext]_vars

\* The same call when every statement it reaches is executed in the end: the
\* register transfers and the sleeps of the settle delay return.  This is
\* WF_vars(GainNext) with ENABLED <<GainNext>>_vars written out: a statement
\* of the search is pending exactly while the call has not returned.
SpecGainFair == SpecGain /\ ([]<>(gs.pc = "done") \/ []<><<GainNext>>_vars)

(***************************************************************************)
(* main(), from the sensor probe to the HTTP server, for the two entry     *)
(* points of the repository (part_000 and part_001).                       *)
(***************************************************************************)
\* The bytes the device-ID register may read.
IdBytes == {80, 0, 255}
\* connectWithBackoff("sqlite3", filePath, 3)
maxRetries == 3

BootInit ==
    /\ \E main \in {"part_000", "part_001"}, ssl \in BOOLEAN :
         /\ (main = "part_000" => ~ssl)
         /\ boot = [BootServing EXCEPT !.main = main, !.ssl = ssl, !.pc = "probe",
                                       !.recorder = FALSE, !.attempts = 0,
                                       !.last = "none", !.handle = FALSE]
    /\ hasDevice = FALSE
    /\ tsl = Dev(FALSE, 0, 0)
    /\ faults = 0
    /\ cancel = 0
    /\ ctx = [e \in ExecIds |-> "none"]
    /\ pc = [e \in ExecIds |-> "none"]
    /\ jobID = [e \in ExecIds |-> 0]
    /\ pending = [e \in ExecIds |-> NoResult]
    /\ stopPending = 0
    /\ recPc = "recv"
    /\ result = NoResult
    /\ db = <<>>
    /\ emitted = <<>>
    /\ failed = {}
    /\ reads = 0
    /\ overflows = 0
    /\ readLog = <<>>
    /\ lx = LxIdle
    /\ gs = GsIdle
    /\ lk = LkIdle
    /\ call = CallIdle
    /\ probe = ProbeIdle
    /\ hist = HistIdle

bootFrame == <<execVars, stopPending, recVars, lx, gs, readLog, lk, call, probe, hist>>

\* log.Fatalf
Fatal(what, err) == [boot EXCEPT !.pc = "exited", !.fatal = what, !.err = err]

\* device, err := tsl2591.NewTSL2591(...): part_000 logs the error and goes
\* on with a nil device, part_001 ends the process.
BootProbe ==
    /\ boot.pc = "probe"
    /\ \E openOk, idOk, okT, okG, okD \in BOOLEAN, idByte \in IdBytes :
         LET r == IF ~openOk THEN [dev |-> Dev(FALSE, 0, 0), err |-> "Failed to open"]
                  ELSE NewTSL2591(TSL2591_GAIN_LOW, TSL2591_INTEGRATIONTIME_300MS,
                                  idOk, idByte, okT, okG, okD)
             n == (IF okT THEN 0 ELSE 1) + (IF okG THEN 0 ELSE 1) + (IF okD THEN 0 ELSE 1)
         IN  IF r.err # "nil"
             THEN /\ okT /\ okG /\ okD
                  /\ boot' = IF boot.main = "part_001" THEN Fatal("sensor", r.err)
                              ELSE [boot EXCEPT !.pc = "db", !.probe = r.err]
                  /\ UNCHANGED <<hasDevice, tsl, faults>>
             ELSE /\ n <= MaxBusFaults
                  /\ boot' = [boot EXCEPT !.pc = "db", !.probe = "nil"]
                  /\ hasDevice' = TRUE
                  /\ tsl' = r.dev
                  /\ faults' = n
    /\ UNCHANGED bootFrame

\* A turn that keeps the error of the first failure.
ConnectTurnFirstError(b, outcome) ==
    IF outcome = "nil" THEN [b EXCEPT !.pc = "migrate", !.handle = TRUE]
    ELSE LET c == [b EXCEPT !.tries = @ + 1,
                            !.slept = @ + 3 * (b.tries + 1),
                            !.err = IF b.tries = 0 THEN outcome ELSE @]
         IN  IF c.tries = maxRetries
             THEN [c EXCEPT !.pc = "exited", !.fatal = "database"]
             ELSE c

\* One turn of the loop of connectWithBackoff: sql.Open and db.Ping; a turn
\* in which both succeed returns the handle; after a failure it sleeps
\* (i + 1) * 3 seconds; after the last turn ConnectSqlite returns the error
\* and main ends the process.
ConnectTurn(b, outcome) ==
    IF outcome = "nil" THEN [b EXCEPT !.pc = "migrate", !.handle = TRUE]
    ELSE LET c == [b EXCEPT !.tries = @ + 1,
                            !.slept = @ + 3 * (b.tries + 1),
                            !.err = outcome]
         IN  IF c.tries = maxRetries
             THEN [c EXCEPT !.pc = "exited", !.fatal = "database"]
             ELSE c

\* What sql.Open and db.Ping of one turn may do.
ConnectOutcomes == {"nil", "open failed", "ping failed"}

BootConnect ==
    /\ boot.pc = "db"
    /\ \E outcome \in ConnectOutcomes :
         boot' = [ConnectTurn(boot, outcome) EXCEPT !.attempts = @ + 1, !.last = outcome]
    /\ UNCHANGED <<devVars, bootFrame>>

\* RunMigrations(db)
BootMigrate ==
    /\ boot.pc = "migrate"
    /\ \E ok \in BOOLEAN :
         boot' = IF ok THEN [boot EXCEPT !.pc = "routes"]
                 ELSE Fatal("database", "migration failed")
    /\ UNCHANGED <<devVars, bootFrame>>

\* defineRoutes(r, &slm.SLMeter{...}): go meter.MonitorAndRecordResults()
BootRoutes ==
    /\ boot.pc = "routes"
    /\ boot' = [boot EXCEPT !.pc = "listen", !.recorder = TRUE]
    /\ UNCHANGED <<devVars, bootFrame>>

\* http.ListenAndServe / http.ListenAndServeTLS
BootListen ==
    /\ boot.pc = "listen"
    /\ \E ok \in BOOLEAN :
         boot' = IF ok THEN [boot EXCEPT !.pc = "serving"]
                 ELSE Fatal("server", "listen failed")
    /\ UNCHANGED <<devVars, bootFrame>>

BootNext ==
    \/ BootProbe
    \/ BootConnect
    \/ BootMigrate
    \/ BootRoutes
    \/ BootListen

SpecBoot == BootInit /\ [][BootNext]_vars

\* main() when sql.Open, db.Ping and the sleeps of connectWithBackoff return.
SpecBootFair == SpecBoot /\ WF_vars(BootConnect)

(***************************************************************************)
(* The driver calls of two goroutines, statement by statement, with        *)
(* tsl.Mutex: goroutine 1 is the job loop (Enable, GetFullLuminosity, the  *)
(* SetGain and SetTiming of SetOptimalGain, the deferred Disable) and      *)
(* goroutine 2 a request handler (the m.Enabled test of Start and of Stop, *)
(* and the Disable of Stop).                                               *)
(***************************************************************************)
LoopCalls ==
    {<<"Enable", 0>>, <<"Disable", 0>>, <<"GetFullLuminosity", 0>>}
        \cup {<<"SetGain", g>> : g \in Gains} \cup {<<"SetTiming", t>> : t \in Timings}
HandlerCalls == {<<"Start", 0>>, <<"Stop", 0>>}

LockInit ==
    /\ hasDevice = TRUE
    /\ \E en \in BOOLEAN, g \in Gains, t \in Timings : tsl = Dev(en, g, t)
    /\ faults = 0
    /\ cancel = 0
    /\ ctx = [e \in ExecIds |-> "none"]
    /\ pc = [e \in ExecIds |-> "none"]
    /\ jobID = [e \in ExecIds |-> 0]
    /\ pending = [e \in ExecIds |-> NoResult]
    /\ stopPending = 0
    /\ recPc = "recv"
    /\ result = NoResult
    /\ db = <<>>
    /\ emitted = <<>>
    /\ failed = {}
    /\ reads = 0
    /\ overflows = 0
    /\ readLog = <<>>
    /\ lx = LxIdle
    /\ gs = GsIdle
    /\ boot = BootServing
    /\ lk = LkIdle
    /\ call = CallIdle
    /\ probe = ProbeIdle
    /\ hist = HistIdle

lockFrame == <<hasDevice, execVars, stopPending, recVars, lx, gs, readLog, boot, call, probe, hist>>

LkAt(t, where) == lk.th[t].pc = where
LkGoto(t, where) == [lk EXCEPT !.th[t].pc = where]
LkReturn(t) == [lk EXCEPT !.th[t] = [op |-> "none", pc |-> "idle", arg |-> 0]]

\* A goroutine enters a call: Enable and Disable start at tsl.Lock(), the
\* others at their test of Enabled.
LkCall(t) ==
    /\ LkAt(t, "idle")
    /\ \E c \in (IF t = 1 THEN LoopCalls ELSE HandlerCalls) :
         lk' = [lk EXCEPT !.th[t] = [op |-> c[1], arg |-> c[2],
                                     pc |-> IF c[1] \in {"Enable", "Disable"}
                                            THEN "lock" ELSE "check"]]
    /\ UNCHANGED <<devVars, lockFrame>>

\* tsl.Lock()
LkLock(t) ==
    /\ LkAt(t, "lock")
    /\ lk.mu = 0
    /\ lk' = [LkGoto(t, "body") EXCEPT !.mu = t]
    /\ UNCHANGED <<devVars, lockFrame>>

\* The body of Enable or Disable: the test of Enabled, the register write
\* and the assignment to Enabled.
LkBody(t) ==
    /\ LkAt(t, "body")
    /\ \E busOk \in BusOutcomes :
         LET r == IF lk.th[t].op = "Enable" THEN Enable(tsl, busOk) ELSE Disable(tsl, busOk)
         IN  tsl' = r.dev /\ faults' = faults + Faulted(r, busOk)
    /\ lk' = LkGoto(t, "unlock")
    /\ UNCHANGED <<hasDevice, lockFrame>>

\* defer tsl.Unlock()
LkUnlock(t) ==
    /\ LkAt(t, "unlock")
    /\ lk' = [LkReturn(t) EXCEPT !.mu = 0]
    /\ UNCHANGED <<devVars, lockFrame>>

\* if !tsl.Enabled of SetGain, SetTiming and GetFullLuminosity, and the
\* tests of m.Enabled in Start and Stop; Stop goes on to its Disable.
LkCheck(t) ==
    /\ LkAt(t, "check")
    /\ lk' = CASE lk.th[t].op = "Start" -> LkReturn(t)
               [] lk.th[t].op = "Stop" ->
                     IF tsl.Enabled
                     THEN [lk EXCEPT !.th[t] = [op |-> "Disable", pc |-> "lock", arg |-> 0]]
                     ELSE LkReturn(t)
               [] lk.th[t].op = "GetFullLuminosity" ->
                     IF tsl.Enabled THEN LkGoto(t, "settle") ELSE LkReturn(t)
               [] OTHER -> IF tsl.Enabled THEN LkGoto(t, "write") ELSE LkReturn(t)
    /\ UNCHANGED <<devVars, lockFrame>>

\* The rest of SetGain or SetTiming once the test has passed: the control
\* byte built from the other field, the register write and the assignment.
LkWrite(t) ==
    /\ LkAt(t, "write")
    /\ \E busOk \in BusOutcomes :
         LET on == [tsl EXCEPT !.Enabled = TRUE]
             r == IF lk.th[t].op = "SetGain" THEN SetGain(on, lk.th[t].arg, busOk)
                  ELSE SetTiming(on, lk.th[t].arg, busOk)
         IN  /\ tsl' = [r.dev EXCEPT !.Enabled = tsl.Enabled]
             /\ faults' = faults + Faulted(r, busOk)
    /\ lk' = LkReturn(t)
    /\ UNCHANGED <<hasDevice, lockFrame>>

\* The rest of GetFullLuminosity: the delay loop over tsl.Timing and the
\* block read.
LkSettle(t) ==
    /\ LkAt(t, "settle")
    /\ \E busOk \in BusOutcomes :
         faults' = faults + Faulted(GetFullLuminosityRead(Block(0, 0), busOk), busOk)
    /\ lk' = LkReturn(t)
    /\ UNCHANGED <<hasDevice, tsl, lockFrame>>

LockNext ==
    \E t \in LockThreads :
        \/ LkCall(t)
        \/ LkLock(t)
        \/ LkBody(t)
        \/ LkUnlock(t)
        \/ LkCheck(t)
        \/ LkWrite(t)
        \/ LkSettle(t)

SpecLock == LockInit /\ [][LockNext]_vars

(***************************************************************************)
(* The driver on its own: calls made one after the other on a device in    *)
(* any state, over a bus that may fail.  call holds the call made last,    *)
(* what it returned and the transfers it made, and ctl the byte the        *)
(* control register holds (-1 before the first write): a write that        *)
(* failed may or may not have reached the register.                        *)
(***************************************************************************)
\* The blocks the channel registers may hold: every byte at one of its two
\* ends, 1 and 256 counts, and 10000 and 2000 counts.
ByteValues == {0, 255}
Blocks ==
    {<<a, b, c, d>> : a \in ByteValues, b \in ByteValues,
                      c \in ByteValues, d \in ByteValues}
        \cup {<<1, 0, 0, 1>>, <<16, 39, 208, 7>>}

DriverInit ==
    /\ hasDevice = TRUE
    /\ \E en \in BOOLEAN, g \in Gains, t \in Timings : tsl = Dev(en, g, t)
    /\ faults = 0
    /\ cancel = 0
    /\ ctx = [e \in ExecIds |-> "none"]
    /\ pc = [e \in ExecIds |-> "none"]
    /\ jobID = [e \in ExecIds |-> 0]
    /\ pending = [e \in ExecIds |-> NoResult]
    /\ stopPending = 0
    /\ recPc = "recv"
    /\ result = NoResult
    /\ db = <<>>
    /\ emitted = <<>>
    /\ failed = {}
    /\ reads = 0
    /\ overflows = 0
    /\ readLog = <<>>
    /\ lx = LxIdle
    /\ gs = GsIdle
    /\ boot = BootServing
    /\ lk = LkIdle
    /\ call = CallIdle
    /\ probe = ProbeIdle
    /\ hist = HistIdle

driverFrame == <<hasDevice, execVars, stopPending, recVars, lx, gs, readLog, boot, lk, probe, hist>>

\* The record of a call that returned r.
Called(op, arg, r) ==
    [call EXCEPT !.op = op, !.arg = arg, !.err = r.err, !.bus = r.bus,
                 !.block = <<>>, !.ch0 = 0, !.ch1 = 0, !.out = <<>>]

\* The record after a call that wrote, or tried to write, the control
\* register; landed tells whether a write that failed reached it.
ControlCalled(op, arg, r, busOk, landed) ==
    [Called(op, arg, r) EXCEPT
        !.ctl = IF r.bus # <<>> /\ (busOk \/ landed) THEN r.bus[1].val ELSE @,
        !.ctlFailed = @ \/ (r.bus # <<>> /\ ~busOk)]

\* tsl.Enable()
DrvEnable ==
    /\ \E busOk \in BusOutcomes :
         LET r == Enable(tsl, busOk)
         IN  /\ tsl' = r.dev
             /\ faults' = faults + Faulted(r, busOk)
             /\ call' = Called("Enable", 0, r)
    /\ UNCHANGED driverFrame

\* tsl.Disable()
DrvDisable ==
    /\ \E busOk \in BusOutcomes :
         LET r == Disable(tsl, busOk)
         IN  /\ tsl' = r.dev
             /\ faults' = faults + Faulted(r, busOk)
             /\ call' = Called("Disable", 0, r)
    /\ UNCHANGED driverFrame

\* tsl.SetGain(gain)
DrvSetGain ==
    /\ \E gain \in Gains, busOk \in BusOutcomes :
       \E landed \in (IF busOk THEN {TRUE} ELSE BOOLEAN) :
         LET r == SetGain(tsl, gain, busOk)
         IN  /\ tsl' = r.dev
             /\ faults' = faults + Faulted(r, busOk)
             /\ call' = ControlCalled("SetGain", gain, r, busOk, landed)
    /\ UNCHANGED driverFrame

\* tsl.SetTiming(timing)
DrvSetTiming ==
    /\ \E timing \in Timings, busOk \in BusOutcomes :
       \E landed \in (IF busOk THEN {TRUE} ELSE BOOLEAN) :
         LET r == SetTiming(tsl, timing, busOk)
         IN  /\ tsl' = r.dev
             /\ faults' = faults + Faulted(r, busOk)
             /\ call' = ControlCalled("SetTiming", timing, r, busOk, landed)
    /\ UNCHANGED driverFrame

\* tsl.GetFullLuminosity(), the channel registers holding the block bytes.
DrvGetFullLuminosity ==
    /\ \E bytes \in Blocks, busOk \in BusOutcomes :
         LET r == GetFullLuminosity(tsl, bytes, busOk)
         IN  /\ faults' = faults + Faulted(r, busOk)
             /\ call' = [Called("GetFullLuminosity", 0, r) EXCEPT
                            !.block = bytes, !.ch0 = r.ch0, !.ch1 = r.ch1]
    /\ UNCHANGED <<hasDevice, tsl, driverFrame>>

\* GetNormalizedOutput for the three spectrum types, on the same counts.
DrvNormalize ==
    /\ \E p \in ChannelPairs :
         call' = [call EXCEPT !.op = "GetNormalizedOutput", !.arg = 0, !.err = "nil",
                     !.bus = <<>>, !.block = <<>>, !.ch0 = p[1], !.ch1 = p[2],
                     !.out = [s \in {TSL2591_FULLSPECTRUM, TSL2591_INFRARED, TSL2591_VISIBLE}
                                 |-> GetNormalizedOutput(s, p[1], p[2])]]
    /\ UNCHANGED <<devVars, driverFrame>>

DriverNext ==
    \/ DrvEnable
    \/ DrvDisable
    \/ DrvSetGain
    \/ DrvSetTiming
    \/ DrvGetFullLuminosity
    \/ DrvNormalize

SpecDriver == DriverInit /\ [][DriverNext]_vars

(***************************************************************************)
(* The meter from the moment a Stop has returned while the loop of the job *)
(* it cancelled has not yet come to the select at the top of its loop: the *)
(* context of job 1 is cancelled, the Disable of Stop has run, and job 1   *)
(* is at the top of its first iteration, or in its first read before or    *)
(* after the test of Enabled.  Every Start from here on follows that Stop. *)
(***************************************************************************)
StoppedAt == {"top", "read", "settle"}

RestartInit ==
    /\ hasDevice = TRUE
    /\ tsl = Dev(FALSE, TSL2591_GAIN_LOW, TSL2591_INTEGRATIONTIME_300MS)
    /\ faults = 0
    /\ cancel = 1
    /\ ctx = [e \in ExecIds |-> IF e = 1 THEN "cancelled" ELSE "none"]
    /\ \E p \in StoppedAt :
         /\ pc = [e \in ExecIds |-> IF e = 1 THEN p ELSE "none"]
         /\ reads = IF p = "top" THEN 0 ELSE 1
    /\ jobID = [e \in ExecIds |-> IF e = 1 THEN 1 ELSE 0]
    /\ pending = [e \in ExecIds |-> NoResult]
    /\ stopPending = 0
    /\ recPc = "recv"
    /\ result = NoResult
    /\ db = <<>>
    /\ emitted = <<>>
    /\ failed = {}
    /\ overflows = 0
    /\ readLog = <<>>
    /\ lx = LxIdle
    /\ gs = GsIdle
    /\ boot = BootServing
    /\ lk = LkIdle
    /\ call = CallIdle
    /\ probe = ProbeIdle
    /\ hist = HistIdle

SpecRestart == RestartInit /\ [][Next]_vars

(***************************************************************************)
(* getHistoricalConditions.  The store answers the two queries with the    *)
(* average lux of the range, the number of minutes of the day whose        *)
(* average lux is above 10000 and the time between the oldest and the most *)
(* recent sample, here in minutes.                                         *)
(***************************************************************************)
\* A classification whose thresholds are inclusive.
LightConditionInclusive(full, hours) ==
    LET r == FDiv(full, hours)
    IN  IF ~FLess(r, Fin(1, 2)) /\ r.k # "NaN" THEN "Full Sun"
        ELSE IF ~FLess(r, Fin(1, 4)) /\ r.k # "NaN" THEN "Partial Sun"
        ELSE IF ~FLess(r, Fin(1, 10)) /\ r.k # "NaN" THEN "Partial Shade"
        ELSE "Shade"

\* The if / else if chain on FullSunlightInRange / RecordedHoursInRange.
LightCondition(full, hours) ==
    IF FLess(Fin(1, 2), FDiv(full, hours)) THEN "Full Sun"
    ELSE IF FLess(Fin(1, 4), FDiv(full, hours)) THEN "Partial Sun"
    ELSE IF FLess(Fin(1, 10), FDiv(full, hours)) THEN "Partial Shade"
    ELSE "Shade"

\* oldest.Sub(mostRecent).Hours() of two times span minutes apart.
Hours(span) == FDiv(Float(span), Float(60))

getHistoricalConditions(conditions, in) ==
    IF ~in.db THEN [conditions |-> conditions, err |-> "nil"]
    ELSE IF ~in.scanOk THEN [conditions |-> conditions, err |-> "ScanError"]
    ELSE LET c1 == [conditions EXCEPT !.AverageLuxInRange = in.avg]
         IN  IF FEq(in.avg, Float(0))
             THEN [conditions |-> [c1 EXCEPT !.LightConditionInRange = "No Data in Range"],
                   err |-> "nil"]
             ELSE IF ~in.queryOk THEN [conditions |-> c1, err |-> "QueryError"]
             ELSE LET c2 == [c1 EXCEPT !.FullSunlightInRange =
                                           FDiv(Float(in.minutes), Float(60))]
                  IN  IF ~in.parseOk THEN [conditions |-> c2, err |-> "ParseError"]
                      ELSE LET c3 == [c2 EXCEPT !.RecordedHoursInRange = Hours(in.span)]
                           IN  [conditions |->
                                    [c3 EXCEPT !.LightConditionInRange =
                                        LightCondition(c3.FullSunlightInRange,
                                                       c3.RecordedHoursInRange)],
                                err |-> "nil"]

\* The averages the store may report and the ranges it may hold: a single
\* sample, ten minutes and twenty minutes of samples, with the minutes of
\* full sun each can contain.
Averages == {Float(0), Float(500), Float(20000)}
Spans == {0, 10, 20}
Ranges ==
    {r \in [avg : Averages, minutes : 0 .. 6, span : Spans] :
        /\ r.minutes <= r.span + 1
        /\ FEq(r.avg, Float(0)) => r.minutes = 0
        /\ r.minutes = r.span + 1 => FLess(Float(10000), r.avg)}

HistInit ==
    /\ MeterInit
    /\ lx = LxIdle
    /\ gs = GsIdle
    /\ boot = BootServing
    /\ lk = LkIdle
    /\ call = CallIdle
    /\ probe = ProbeIdle
    /\ \E r \in Ranges, hasDb, scanOk, queryOk, parseOk \in BOOLEAN :
         hist = [HistIdle EXCEPT !.db = hasDb, !.avg = r.avg, !.minutes = r.minutes,
                                 !.span = r.span, !.scanOk = scanOk,
                                 !.queryOk = queryOk, !.parseOk = parseOk]

\* conditions, err = m.getHistoricalConditions(conditions, startDate, endDate)
HistCall ==
    /\ ~hist.returned
    /\ LET r == getHistoricalConditions(NoConditions, hist)
       IN  hist' = [hist EXCEPT !.returned = TRUE, !.conditions = r.conditions,
                                !.err = r.err]
    /\ UNCHANGED <<devVars, execVars, stopPending, recVars, lx, gs, readLog, boot,
                   lk, call, probe>>

HistNext == HistCall

SpecConditions == HistInit /\ [][HistNext]_vars

(***************************************************************************)
(* NewTSL2591 on its own: one call for a gain and a timing, on a bus where *)
(* the open, the device-ID read and the three register writes each succeed *)
(* or fail and the ID register holds some byte.                            *)
(***************************************************************************)
ProbeInit ==
    /\ \E gain \in Gains, timing \in Timings, idByte \in IdBytes,
          openOk, idOk, okT, okG, okD \in BOOLEAN :
         /\ Cardinality({i \in 1 .. 4 : ~<<idOk, okT, okG, okD>>[i]}) <= MaxBusFaults
         /\ probe = [ProbeIdle EXCEPT !.gain = gain, !.timing = timing, !.openOk = openOk,
                                      !.idOk = idOk, !.idByte = idByte,
                                      !.okT = okT, !.okG = okG, !.okD = okD]
    /\ hasDevice = FALSE
    /\ tsl = Dev(FALSE, 0, 0)
    /\ faults = 0
    /\ cancel = 0
    /\ ctx = [e \in ExecIds |-> "none"]
    /\ pc = [e \in ExecIds |-> "none"]
    /\ jobID = [e \in ExecIds |-> 0]
    /\ pending = [e \in ExecIds |-> NoResult]
    /\ stopPending = 0
    /\ recPc = "recv"
    /\ result = NoResult
    /\ db = <<>>
    /\ emitted = <<>>
    /\ failed = {}
    /\ reads = 0
    /\ overflows = 0
    /\ readLog = <<>>
    /\ lx = LxIdle
    /\ gs = GsIdle
    /\ boot = BootServing
    /\ lk = LkIdle
    /\ call = CallIdle
    /\ hist = HistIdle

\* device, err := NewTSL2591(gain, timing, path)
ProbeCall ==
    /\ ~probe.returned
    /\ LET r == IF ~probe.openOk THEN [dev |-> Dev(FALSE, 0, 0), err |-> "Failed to open"]
                ELSE NewTSL2591(probe.gain, probe.timing, probe.idOk, probe.idByte,
                                probe.okT, probe.okG, probe.okD)
       IN  probe' = [probe EXCEPT !.returned = TRUE, !.err = r.err, !.dev = r.dev]
    /\ UNCHANGED <<devVars, execVars, stopPending, recVars, lx, gs, readLog, boot,
                   lk, call, hist>>

ProbeNext == ProbeCall

SpecProbe == ProbeInit /\ [][ProbeNext]_vars

(***************************************************************************)
(* The properties.                                                         *)
(***************************************************************************)

\* No bus transfer has failed, at boot or later.
NoBusFault == faults = 0

\* C1: in every reachable state at most one sampling execution (a job loop
\* spawned by Start that has not returned) is alive; stated for the runs in
\* which no bus transfer fails.
AtMostOneExecutionAlive == NoBusFault => Cardinality(Alive) <= 1

\* A Start request is accepted in this step: it spawns an execution.
StartAccepted == \E e \in ExecIds : pc[e] = "none" /\ pc'[e] = "spawned"

\* C2: accepting a Start takes the meter out of Idle in the same step (the
\* check and the set are one atomic action), so that every other Start that
\* runs concurrently with the accepted one is answered AlreadyRunning; stated
\* for the runs in which no bus transfer fails.
StartIsCheckAndSet ==
    [][StartAccepted /\ NoBusFault => (StartResponse = "AlreadyRunning")']_vars

\* The execution of the Start that was accepted last.
LastAccepted == Cardinality(Spawned)

\* C3: when nobody calls Stop, once a Start has been accepted and until the
\* deadline of its job has passed, a further Start is answered AlreadyRunning
\* (so it spawns nothing), and a job id, once drawn, never changes; stated for
\* the runs in which no bus transfer fails.
SecondStartRejected ==
    /\ [](NoBusFault /\ Spawned # {} /\ ctx[LastAccepted] # "expired"
            => StartResponse = "AlreadyRunning")
    /\ [][\A e \in ExecIds : jobID[e] # 0 => jobID'[e] = jobID[e]]_vars

\* C4: with a device attached, Stop answers NotRunning exactly when no job is
\* Running; with neither cancelled nor expired job alive it changes nothing,
\* and with one it cancels that job's context and goes on to disable the
\* device; stated for the runs in which no bus transfer fails.
StopRejectedExactlyWhenIdle ==
    hasDevice /\ NoBusFault => ((StopResponse = "NotRunning") <=> (Running = {}))

\* Execution e leaves its loop in this step, its context being in state why.
ExitsBy(e, why) == pc[e] = "exit" /\ pc'[e] = "done" /\ ctx[e] = why

\* The meter is Idle: the device is disabled, no sampling execution is
\* alive and a Start would be accepted.
MeterIdle == ~tsl.Enabled /\ Alive = {} /\ StartResponse = "OK"

\* C5: when the loop of a job cancelled by Stop exits, the device is
\* disabled, the meter is Idle and a following Start is accepted; stated for
\* the runs in which no bus transfer fails.
StoppedJobLeavesMeterIdle ==
    [][\A e \in ExecIds : ExitsBy(e, "cancelled") /\ NoBusFault' => MeterIdle']_vars

\* C6: when the loop of a job whose deadline has passed exits, the device is
\* disabled, the meter is Idle and a new Start is accepted; stated for the
\* runs in which no bus transfer fails.
ExpiredJobLeavesMeterIdle ==
    [][\A e \in ExecIds : ExitsBy(e, "expired") /\ NoBusFault' => MeterIdle']_vars

\* The results MonitorAndRecordResults is done with.
Handled == IF recPc = "recv" THEN Len(emitted) ELSE Len(emitted) - 1

\* The rows of the first n results sent, in the order sent, leaving out those
\* whose lux is +Inf and, when lossy, those whose INSERT failed.
RECURSIVE ExpectedRows(_, _)
ExpectedRows(n, lossy) ==
    IF n = 0 THEN <<>>
    ELSE IF IsInf1(emitted[n].Lux) \/ (lossy /\ n \in failed)
         THEN ExpectedRows(n - 1, lossy)
         ELSE Append(ExpectedRows(n - 1, lossy), Row(emitted[n]))

FiniteRows(rows) == SelectSeq(rows, LAMBDA r : r.lux.k = "Fin")

\* C7 (as amended): the rows of the table are, in the order the samples were
\* generated, exactly the samples received whose lux is not +Inf and whose
\* INSERT did not fail, each once and carrying the job id of a job that was
\* started; so a sample of finite lux is stored exactly once and in order
\* unless its INSERT fails, and then it is not stored at all.
StoredOnceInOrderUnlessInsertFails ==
    /\ db = ExpectedRows(Handled, TRUE)
    /\ \A i \in 1 .. Len(db) : \E e \in Spawned : jobID[e] # 0 /\ db[i].job_id = jobID[e]

\* C7 (as stated): every sample of finite lux that was emitted and handled is
\* in the table exactly once, in generation order, with its job id.
StoredOnceInOrder == FiniteRows(db) = FiniteRows(ExpectedRows(Handled, FALSE))

\* Two samples were sent, the INSERT of the first failed, the second is stored.
FirstLostSecondStored ==
    /\ Len(emitted) = 2 /\ failed = {1} /\ recPc = "recv" /\ Len(db) = 1
    /\ IsFin(emitted[1].Lux) /\ IsFin(emitted[2].Lux)

\* C8: no row of the table has a lux that is NaN, +Inf or -Inf.
NoNonFiniteLuxStored == \A i \in 1 .. Len(db) : db[i].lux.k = "Fin"

\* C9: an INSERT that fails changes nothing but the log and leaves the
\* recorder receiving, and whenever a job loop is sending a sample the
\* recorder is receiving or can finish its INSERT and then receive.
RecorderSurvivesFailedInsert ==
    /\ [](\A e \in ExecIds : pc[e] = "send" => (recPc = "recv" \/ ENABLED RecInsert))
    /\ [][failed' # failed =>
            (recPc' = "recv" /\ UNCHANGED <<db, emitted, devVars, execVars, stopPending>>)]_vars

\* After an INSERT that failed the recorder has received the next sample.
ReceivedAfterFailedInsert ==
    Len(emitted) = 2 /\ 1 \in failed /\ recPc = "insert" /\ result = emitted[2]

\* C10: CalculateLux returns the Overflow error if and only if ch0 or ch1 is
\* 0xFFFF, whatever the gain and the integration time.
OverflowIffSaturated ==
    lx.out # NoOutput =>
        ((lx.out.err = "Overflow") <=> (lx.ch0 = ChannelMax \/ lx.ch1 = ChannelMax))

\* CalculateLux was called with channel 1 alone saturated.
OverflowOnChannel1 ==
    lx.out.err = "Overflow" /\ lx.ch0 # ChannelMax /\ lx.ch1 = ChannelMax

\* The integration time in ms and the gain multiplier of the datasheet.
IntTimeMs(timing) == 100 * (timing + 1)
GainMultiplier(gain) ==
    CASE gain = TSL2591_GAIN_LOW -> 1 [] gain = TSL2591_GAIN_MED -> 25
      [] gain = TSL2591_GAIN_HIGH -> 428 [] gain = TSL2591_GAIN_MAX -> 9876
CountsPerLux(gain, timing) ==
    FDiv(FMul(Float(IntTimeMs(timing)), Float(GainMultiplier(gain))), Float(408))
LuxFormula(ch0, ch1, gain, timing) ==
    FDiv(FMul(FSub(Float(ch0), Float(ch1)), FSub(Float(1), FDiv(Float(ch1), Float(ch0)))),
         CountsPerLux(gain, timing))

\* C11: for counts that are not saturated and ch0 > 0, CalculateLux returns
\* (ch0 - ch1) * (1 - ch1/ch0) / countsPerLux, countsPerLux being
\* intTimeMs * gainMultiplier / 408 of the timing and gain codes of the
\* device; for ch0 = 10000, ch1 = 2000, LOW gain, 300 ms it returns 8704.
LuxIsTheFormula ==
    /\ (lx.out # NoOutput /\ lx.ch0 > 0 /\ lx.ch0 # ChannelMax /\ lx.ch1 # ChannelMax)
          => (lx.out.err = "nil" /\ lx.out.lux = LuxFormula(lx.ch0, lx.ch1, lx.gain, lx.timing))
    /\ (lx.out # NoOutput /\ lx.ch0 = 10000 /\ lx.ch1 = 2000 /\ lx.gain = TSL2591_GAIN_LOW
          /\ lx.timing = TSL2591_INTEGRATIONTIME_300MS)
          => lx.out.lux = Float(8704)

\* CalculateLux was called on 10000 and 2000 counts at LOW gain and 300 ms.
LuxOfTheExample ==
    /\ lx.out.err = "nil" /\ lx.ch0 = 10000 /\ lx.ch1 = 2000
    /\ lx.gain = TSL2591_GAIN_LOW /\ lx.timing = TSL2591_INTEGRATIONTIME_300MS
    /\ lx.out.lux = Float(8704)

ExhaustedSearchSetsDefaults ==
    (NoBusFault /\ gs.pc = "done" /\ gs.err # "nil")
        => /\ gs.err = "All gain options are saturated"
           /\ gs.k = Combinations
           /\ tsl.Gain = TSL2591_GAIN_LOW
           /\ tsl.Timing = TSL2591_INTEGRATIONTIME_600MS

\* C14: SetOptimalGain goes through the combinations in the order LOW, MED,
\* HIGH, MAX (outer) and 600 ... 100 ms (inner); when it returns success the
\* combination it stopped at is the active one and the lux read there is
\* finite and not zero; stated for the runs in which no bus transfer fails.
SearchSucceedsOnFiniteLux ==
    (NoBusFault /\ gs.pc = "done" /\ gs.err = "nil")
        => /\ tsl.Gain = GainAt(gs.k)
           /\ tsl.Timing = TimeAt(gs.k)
           /\ IsFin(gs.lux)
           /\ ~FEq(gs.lux, Float(0))

\* C15: a job loop leaves its loop only when its context is cancelled (by
\* Stop) or past its deadline: whatever read failure, overflow, failed gain
\* search or failed INSERT it met, it is not on its way out otherwise.
LoopExitsOnlyWhenDone ==
    \A e \in ExecIds : pc[e] \in {"exit", "done"} => ctx[e] \in {"cancelled", "expired"}

\* A loop that met an overflow and whose sample then failed to be inserted
\* has returned after a Stop.
LoopStoppedAfterTrouble ==
    \E e \in ExecIds :
        pc[e] = "done" /\ ctx[e] = "cancelled" /\ overflows > 0 /\ failed # {}

\* The reads loop e has made, in order, and the results it has sent, in the
\* order the recorder received them.
LogOf(e) == SelectSeq(readLog, LAMBDA x : x.job = e)
SentBy(e) == SelectSeq(emitted, LAMBDA r : r.JobID = e)
\* No read of loop e failed or overflowed.
Faultless(e) == \A i \in 1 .. Len(LogOf(e)) : LogOf(e)[i].kind = "sample"

\* C16: as long as no read of a job fails or overflows, the samples received
\* from it are exactly the samples of its iterations, one for each iteration
\* that has got past its send, in the order of the reads and all with the
\* job id of that job.
OneSamplePerIteration ==
    \A e \in ExecIds :
        Faultless(e) =>
            LET n == Len(LogOf(e)) - (IF pc[e] = "send" THEN 1 ELSE 0)
            IN  /\ Len(SentBy(e)) = n
                /\ \A i \in 1 .. n : SentBy(e)[i] = LogOf(e)[i].res
                /\ \A i \in 1 .. Len(LogOf(e)) : LogOf(e)[i].res.JobID = jobID[e]
                /\ jobID[e] \in {0, e}

\* A job made two reads without failure or overflow, and its two samples,
\* which differ, were received.
TwoIterationsTwoSamples ==
    \E e \in ExecIds :
        /\ Faultless(e) /\ Len(LogOf(e)) = 2 /\ Len(SentBy(e)) = 2
        /\ SentBy(e)[1] # SentBy(e)[2]

\* C17: in the table the rows of two jobs are never interleaved: every row
\* of a job comes before every row of a job started later (jobs are numbered
\* in the order their Starts were accepted); stated for the runs in which no
\* bus transfer fails.
RowsOfJobsNotInterleaved ==
    NoBusFault =>
        \A i, j \in 1 .. Len(db) : i < j => db[i].job_id <= db[j].job_id

\* C18: with no device attached Start and Stop answer DeviceAbsent and
\* neither can take effect: no execution is spawned, no cancel function is
\* set or called, no Disable is pending and the device is never touched.
NoDeviceNoEffect ==
    ~hasDevice =>
        /\ StartResponse = "DeviceAbsent" /\ StopResponse = "DeviceAbsent"
        /\ ~ENABLED StartRequest /\ ~ENABLED StopRequest
        /\ Spawned = {} /\ cancel = 0 /\ stopPending = 0
        /\ \A e \in ExecIds : ctx[e] = "none"
        /\ tsl = Dev(FALSE, 0, 0) /\ faults = 0

\* The meter holds no device and answers both requests with DeviceAbsent.
NoDeviceRequestsRefused ==
    ~hasDevice /\ StartResponse = "DeviceAbsent" /\ StopResponse = "DeviceAbsent"

\* C19: a sensor probe that fails at boot does not end the process, and when
\* the process serves requests after a failed probe the recorder has been
\* started and the meter holds no device.
FailedProbeNotFatal ==
    /\ boot.fatal # "sensor"
    /\ (boot.pc = "serving" /\ boot.probe \notin {"none", "nil"})
          => (boot.recorder /\ ~hasDevice)

\* C20: a loop whose read overflowed runs SetOptimalGain before anything
\* else, sends no sample in that iteration, and then starts its next
\* iteration from the wait for the ticker; stated for the runs in which no
\* bus transfer fails.
OverflowCalibratesThenWaitsForTick ==
    [][NoBusFault =>
         \A e \in ExecIds :
            /\ (pc[e] = "calibrate" /\ pc'[e] # pc[e]) => pc'[e] = "sleep"
            /\ pc[e] \in {"calibrate", "sleep"} => SentBy(e)' = SentBy(e)
            /\ (pc[e] = "sleep" /\ pc'[e] # pc[e]) => pc'[e] = "wait"]_vars

\* Goroutine t reads or writes Enabled, Gain or Timing in this step.
LkAccesses(t) ==
    /\ lk.th[t].pc \in {"body", "check", "write", "settle"}
    /\ lk'.th[t] # lk.th[t]
\* Goroutine t is between the first and the last access of a call.
LkInside(t) == lk.th[t].pc \in {"body", "write", "settle"}

\* C21: every step of Enable, Disable, SetGain, SetTiming, GetFullLuminosity
\* and of the Start and Stop handlers that reads or writes Enabled, Gain or
\* Timing is taken by the goroutine that holds tsl.Mutex, and no two
\* goroutines are inside such a call at once.
FieldsAccessedUnderLock ==
    /\ [](\A t, u \in LockThreads : (LkInside(t) /\ LkInside(u)) => t = u)
    /\ [][\A t \in LockThreads : LkAccesses(t) => lk.mu = t]_vars

\* C22: a job loop reads the channel registers only while the device is
\* enabled, and the gain and the timing change only while it is enabled,
\* however the Stop handlers interleave with the loop; stated for the runs
\* in which no bus transfer fails.
BusAccessOnlyWhileEnabled ==
    [][NoBusFault =>
         /\ \A e \in ExecIds : (pc[e] = "settle" /\ pc'[e] # "settle") => tsl.Enabled
         /\ (tsl'.Gain # tsl.Gain \/ tsl'.Timing # tsl.Timing) => tsl.Enabled]_vars

\* The samples loop e may still send before it is back at the top of its
\* loop: one while it reads or is about to send, none otherwise.
Owed(e) == IF pc[e] \in {"read", "settle", "send"} THEN 1 ELSE 0

\* C23: a loop whose context Stop has cancelled starts no further read,
\* leaves its loop only from the select at the top, leaves it there the next
\* time it gets to it, and sends at most the one sample of the iteration it
\* was in when the context was cancelled.
CancelObservedAtTop ==
    [][\A e \in ExecIds :
         ctx[e] = "cancelled" =>
            /\ pc'[e] = "read" => pc[e] = "read"
            /\ pc'[e] = "exit" => pc[e] \in {"top", "exit"}
            /\ (pc[e] = "top" /\ pc'[e] # "top") => pc'[e] = "exit"
            /\ Owed(e)' <= Owed(e)
            /\ Len(SentBy(e)') - Len(SentBy(e)) <= Owed(e) - Owed(e)']_vars

\* A loop cancelled by Stop has returned after the one read it made and the
\* one sample it sent.
CancelledLoopSentOneSample ==
    \E e \in ExecIds :
        /\ ctx[e] = "cancelled" /\ pc[e] = "done"
        /\ Len(LogOf(e)) = 1 /\ Len(SentBy(e)) = 1

\* GetFullLuminosity of loop e fails in this step: at its test of Enabled or
\* at its block read.
ReadFails(e) ==
    \/ pc[e] = "read" /\ pc'[e] # "read" /\ ~tsl.Enabled
    \/ pc[e] = "settle" /\ pc'[e] # "settle" /\ faults' > faults

\* C24: when GetFullLuminosity fails the loop is about to send a sample whose
\* Lux, Visible, Infrared and FullSpectrum are zero and whose JobID is the id
\* of its job; it sends that sample, once, then waits for the tick, and from
\* the tick goes back to the top of the loop, sending nothing more.
ReadFailureSendsOneSentinel ==
    [][\A e \in ExecIds :
         /\ ReadFails(e) =>
               /\ pc'[e] = "send"
               /\ pending'[e] = LuxResults(Float(0), Float(0), Float(0), Float(0), jobID[e])
               /\ jobID[e] = e
               /\ emitted' = emitted
         /\ (pc[e] = "send" /\ pc'[e] # "send") =>
               (pc'[e] = "wait" /\ emitted' = Append(emitted, pending[e]))
         /\ (pc[e] = "wait" /\ pc'[e] # "wait") =>
               (pc'[e] = "top" /\ emitted' = emitted)]_vars

\* A loop whose first read failed has sent its sentinel and is back at the
\* top of the loop, its context live.
SentinelSentAfterFailedRead ==
    \E e \in ExecIds :
        /\ pc[e] = "top" /\ ctx[e] = "live"
        /\ Len(LogOf(e)) = 1 /\ LogOf(e)[1].kind = "failure"
        /\ SentBy(e) = <<LuxResults(Float(0), Float(0), Float(0), Float(0), e)>>

\* The write of one byte to a register, and the read of the channel block,
\* as they appear on the bus (0xA0 is the command bit).
EnableWrite(val) == [op |-> "write", reg |-> 160, val |-> val]
ControlWrite(val) == [op |-> "write", reg |-> 161, val |-> val]
ChannelRead == [op |-> "read", reg |-> 180, val |-> 0]

\* C25: Enable on an enabled device and Disable on a disabled one return
\* success, make no bus transfer and change nothing, so a second Enable after
\* an Enable that succeeded (a second Disable after a Disable) has no effect;
\* otherwise Enable writes 0x93 and Disable 0x00 to the enable register, and
\* when the write succeeds the device is in the target state.
EnableDisableIdempotent ==
    [][/\ (call'.op = "Enable" /\ tsl.Enabled)
            => (call'.err = "nil" /\ call'.bus = <<>> /\ tsl' = tsl)
       /\ (call'.op = "Disable" /\ ~tsl.Enabled)
            => (call'.err = "nil" /\ call'.bus = <<>> /\ tsl' = tsl)
       /\ (call'.op = "Enable" /\ call.op = "Enable" /\ call.err = "nil")
            => (call'.err = "nil" /\ call'.bus = <<>> /\ tsl' = tsl)
       /\ (call'.op = "Disable" /\ call.op = "Disable" /\ call.err = "nil")
            => (call'.err = "nil" /\ call'.bus = <<>> /\ tsl' = tsl)
       /\ (call'.op = "Enable" /\ ~tsl.Enabled)
            => /\ call'.bus = <<EnableWrite(147)>>
               /\ call'.err = "nil" => tsl' = [tsl EXCEPT !.Enabled = TRUE]
               /\ call'.err # "nil" => tsl' = tsl
       /\ (call'.op = "Disable" /\ tsl.Enabled)
            => /\ call'.bus = <<EnableWrite(0)>>
               /\ call'.err = "nil" => tsl' = [tsl EXCEPT !.Enabled = FALSE]
               /\ call'.err # "nil" => tsl' = tsl]_vars

\* Enable was called on a device that was enabled already.
EnabledAlready ==
    call.op = "Enable" /\ call.err = "nil" /\ call.bus = <<>> /\ tsl.Enabled

\* C26: SetGain, SetTiming and GetFullLuminosity called on a disabled device
\* return NotEnabled, make no bus transfer and leave the device, the control
\* register and (for GetFullLuminosity) the counts returned at zero.
DisabledCallsRefused ==
    [][(~tsl.Enabled /\ call'.op \in {"SetGain", "SetTiming", "GetFullLuminosity"})
          => /\ call'.err = "NotEnabled"
             /\ call'.bus = <<>>
             /\ tsl' = tsl
             /\ call'.ctl = call.ctl
             /\ faults' = faults
             /\ call'.ch0 = 0 /\ call'.ch1 = 0]_vars

\* SetTiming was refused on a disabled device whose timing is another one.
TimingRefusedWhileDisabled ==
    /\ ~tsl.Enabled /\ call.op = "SetTiming" /\ call.err = "NotEnabled"
    /\ call.arg # tsl.Timing

\* The two fields of a control byte.
TimingBits(b) == b % 16
GainBits(b) == b - (b % 16)

\* C27: a SetGain(g) that succeeds writes the one byte Timing | g to the
\* control register and changes Gain alone, a SetTiming(t) that succeeds
\* writes t | Gain and changes Timing alone, the byte written decodes to the
\* (Timing, Gain) then in memory, and as long as no control write has failed
\* the byte the control register holds decodes to the (Timing, Gain) in
\* memory.
ControlByteIsTimingOrGain ==
    /\ []((call.ctl # -1 /\ ~call.ctlFailed)
            => (TimingBits(call.ctl) = tsl.Timing /\ GainBits(call.ctl) = tsl.Gain))
    /\ [][/\ (call'.op = "SetGain" /\ call'.err = "nil")
               => /\ call'.bus = <<ControlWrite(BitOr(tsl.Timing, call'.arg))>>
                  /\ tsl' = [tsl EXCEPT !.Gain = call'.arg]
                  /\ TimingBits(call'.bus[1].val) = tsl.Timing
                  /\ GainBits(call'.bus[1].val) = call'.arg
                  /\ call'.ctl = call'.bus[1].val
          /\ (call'.op = "SetTiming" /\ call'.err = "nil")
               => /\ call'.bus = <<ControlWrite(BitOr(call'.arg, tsl.Gain))>>
                  /\ tsl' = [tsl EXCEPT !.Timing = call'.arg]
                  /\ TimingBits(call'.bus[1].val) = call'.arg
                  /\ GainBits(call'.bus[1].val) = tsl.Gain
                  /\ call'.ctl = call'.bus[1].val]_vars

\* SetGain(MAX) succeeded on a device at 600 ms: the register holds 0x35.
MaxGainWrittenAt600ms ==
    /\ call.op = "SetGain" /\ call.err = "nil" /\ call.arg = TSL2591_GAIN_MAX
    /\ tsl.Timing = TSL2591_INTEGRATIONTIME_600MS /\ call.ctl = 53 /\ ~call.ctlFailed

\* C28: a GetFullLuminosity that succeeds has read the channel block once
\* and returns channel0 = b[0] + 256 * b[1] and channel1 = b[2] + 256 * b[3]
\* of the block b read; one that fails returns 0 and 0 with its error.
ChannelsAreLittleEndian ==
    call.op = "GetFullLuminosity" =>
        /\ call.err = "nil" =>
              /\ call.bus = <<ChannelRead>>
              /\ call.ch0 = call.block[1] + 256 * call.block[2]
              /\ call.ch1 = call.block[3] + 256 * call.block[4]
        /\ call.err # "nil" => (call.ch0 = 0 /\ call.ch1 = 0)
        /\ call.err = "BusError" => call.bus = <<ChannelRead>>

\* GetFullLuminosity read the block 10 27 D0 07 and returned 10000 and 2000.
DaylightBlockDecoded ==
    /\ call.op = "GetFullLuminosity" /\ call.err = "nil"
    /\ call.block = <<16, 39, 208, 7>> /\ call.ch0 = 10000 /\ call.ch1 = 2000

\* C29: for counts ch0 and ch1 the normalized outputs are
\* fullSpectrum = ch0 / 65535, infrared = ch1 / 65535 and
\* visible = max(ch0 - ch1, 0) / 65535; each lies in [0, 1], and visible is 0
\* whenever ch1 >= ch0.
NormalizedOutputsInUnitRange ==
    call.op = "GetNormalizedOutput" =>
        LET full == call.out[TSL2591_FULLSPECTRUM]
            ir == call.out[TSL2591_INFRARED]
            vis == call.out[TSL2591_VISIBLE]
        IN  /\ full = Fin(call.ch0, 65535)
            /\ ir = Fin(call.ch1, 65535)
            /\ vis = Fin(IF call.ch0 > call.ch1 THEN call.ch0 - call.ch1 ELSE 0, 65535)
            /\ \A x \in {full, ir, vis} : IsFin(x) /\ 0 <= x.n /\ x.n <= x.d
            /\ call.ch1 >= call.ch0 => vis = Float(0)

\* The outputs were computed for counts with channel 1 above channel 0.
NormalizedWithInfraredAbove ==
    /\ call.op = "GetNormalizedOutput" /\ call.ch1 > call.ch0
    /\ call.out[TSL2591_VISIBLE] = Float(0) /\ call.out[TSL2591_INFRARED].n > 0

\* Execution n is in its loop, between m.Enable() and its return.
InLoop(n) == pc[n] \in {"top", "read", "settle", "calibrate", "sleep", "send", "wait"}

\* C30: after a Stop and a new Start, whatever the stopped job's execution
\* still does (its return and its deferred Disable included), a job that is
\* in its loop and neither cancelled nor expired has the device enabled, so
\* that its reads are not refused, and a Stop would be accepted and cancel
\* it; stated for the runs in which no bus transfer fails.
NewJobSurvivesOldExit ==
    NoBusFault =>
        \A n \in ExecIds :
            (ctx[n] = "live" /\ InLoop(n)) =>
                (tsl.Enabled /\ StopResponse = "OK" /\ cancel = n)

\* C31: the cancel function the meter holds is that of every execution
\* that is alive with a context neither cancelled nor expired, so that a
\* Stop that is accepted leaves no such execution behind; stated for the
\* runs in which no bus transfer fails.
StopReachesEveryLiveExecution ==
    /\ [](NoBusFault => \A e \in Alive : ctx[e] = "live" => cancel = e)
    /\ [][(NoBusFault /\ stopPending' = stopPending + 1)
            => \A e \in Alive : ctx'[e] # "live"]_vars

\* C32: whenever Stop passes its device-present and Enabled checks, m.cancel
\* has been set by the goroutine of a Start: Stop never calls a nil cancel
\* function, whatever register write has failed before.
StopNeverCallsNilCancel == StopResponse # "Panic"

\* C33: a sample with all fields zero is sent, and a row made of it is
\* stored, only when a bus transfer has failed; in particular not because a
\* Stop has disabled the device between a loop's select and its read.
NoSentinelWithoutBusFailure ==
    NoBusFault =>
        /\ \A i \in 1 .. Len(emitted) : emitted[i] # Sentinel(emitted[i].JobID)
        /\ \A i \in 1 .. Len(db) : db[i] # Row(Sentinel(db[i].job_id))

\* C34: an Enable, Disable, SetGain or SetTiming whose register write fails
\* returns the error and leaves Enabled, Gain and Timing as they were, and
\* the three fields change only in a call that made one register write and
\* returned success.
FailedWriteChangesNothing ==
    [][/\ (call'.op \in {"Enable", "Disable", "SetGain", "SetTiming"} /\ faults' > faults)
            => (call'.err = "BusError" /\ tsl' = tsl)
       /\ call'.err = "BusError" => tsl' = tsl
       /\ tsl' # tsl
            => (call'.err = "nil" /\ Len(call'.bus) = 1 /\ call'.bus[1].op = "write"
                  /\ faults' = faults)]_vars

\* The register write of a SetGain to another gain failed.
GainWriteFailed ==
    /\ call.op = "SetGain" /\ call.err = "BusError" /\ tsl.Enabled
    /\ call.arg # tsl.Gain /\ Len(call.bus) = 1

\* C35: NewTSL2591 returns a device only when the device-ID register read
\* succeeded and gave 0x50, and a device it returns without error is
\* disabled and has the gain and the timing that were asked for.
ProbedDeviceIsConfigured ==
    (probe.returned /\ probe.err = "nil")
        => /\ probe.openOk /\ probe.idOk /\ probe.idByte = 80
           /\ ~probe.dev.Enabled
           /\ probe.dev.Gain = probe.gain
           /\ probe.dev.Timing = probe.timing

\* C36: SetOptimalGain returns: it reads the channels at most once for each
\* of the 24 combinations of a gain and an integration time, goes through
\* the combinations one after the other without coming back to one, and
\* returns either success or the all-saturated error.
SearchTerminatesWithin24Reads ==
    /\ [](gs.k <= 24 /\ (gs.pc = "bus" => gs.k < 24))
    /\ [](\A j, k \in 0 .. 23 : j # k => <<GainAt(j), TimeAt(j)>> # <<GainAt(k), TimeAt(k)>>)
    /\ [](gs.pc = "done" => gs.err \in {"nil", "All gain options are saturated"})
    /\ [][/\ gs'.k \in {gs.k, gs.k + 1}
          /\ (gs.pc \in {"check", "bus"} /\ gs'.pc # gs.pc)
                => (gs'.k = gs.k + 1 \/ gs'.pc \in {"bus", "done"})
          /\ gs'.pc = "bus" => gs.pc \in {"check", "bus"}]_vars
    /\ <>(gs.pc = "done")

\* The search has read the channels at the last of the 24 combinations and
\* returned the all-saturated error.
SearchExhausted ==
    gs.pc = "done" /\ gs.k = 24 /\ gs.err = "All gain options are saturated" /\ ~gs.stopped


\* C37: for counts that are not saturated with ch0 > 0, at every gain and
\* integration time, the lux CalculateLux returns is finite and not negative,
\* equals (ch0 - ch1)^2 / (ch0 * countsPerLux), and is zero exactly when
\* ch0 = ch1; also when ch1 > ch0.
LuxIsASquareOverCh0 ==
    (lx.out # NoOutput /\ lx.ch0 > 0 /\ ~Overflowed(lx.ch0, lx.ch1))
        => LET d == lx.ch0 - lx.ch1
           IN  /\ lx.out.err = "nil"
               /\ IsFin(lx.out.lux)
               /\ ~FLess(lx.out.lux, Float(0))
               /\ lx.out.lux = FDiv(FMul(Fin(d, lx.ch0), Float(d)),
                                     CountsPerLux(lx.gain, lx.timing))
               /\ (FEq(lx.out.lux, Float(0)) <=> lx.ch0 = lx.ch1)

\* CalculateLux was called with more infrared than full-spectrum counts and
\* returned a positive lux.
LuxOfInfraredAbove ==
    /\ lx.out.err = "nil" /\ lx.ch0 > 0 /\ lx.ch1 > lx.ch0
    /\ ~Overflowed(lx.ch0, lx.ch1)
    /\ FLess(Float(0), lx.out.lux)


\* C38: a call of getHistoricalConditions that finds a store and returns no
\* error assigns one light condition to the range: "No Data in Range" when
\* the average lux is 0, otherwise, r being the hours of full sun divided by
\* the hours recorded, "Full Sun" if r > 0.5, else "Partial Sun" if
\* r > 0.25, else "Partial Shade" if r > 0.1, else "Shade".
OneLightConditionPerRange ==
    (hist.returned /\ hist.db /\ hist.err = "nil")
        => LET r == FDiv(FDiv(Float(hist.minutes), Float(60)),
                         FDiv(Float(hist.span), Float(60)))
               c == hist.conditions.LightConditionInRange
           IN  /\ c \in {"No Data in Range", "Full Sun", "Partial Sun",
                          "Partial Shade", "Shade"}
               /\ c = "No Data in Range" <=> hist.avg = Float(0)
               /\ hist.avg # Float(0)
                    => /\ c = "Full Sun" <=> FLess(Fin(1, 2), r)
                       /\ c = "Partial Sun"
                            <=> (~FLess(Fin(1, 2), r) /\ FLess(Fin(1, 4), r))
                       /\ c = "Partial Shade"
                            <=> (~FLess(Fin(1, 4), r) /\ FLess(Fin(1, 10), r))
                       /\ c = "Shade" <=> ~FLess(Fin(1, 10), r)
               /\ (hist.avg # Float(0) /\ hist.span > 0)
                    => /\ c = "Full Sun" <=> 2 * hist.minutes > hist.span
                       /\ c = "Shade" <=> 10 * hist.minutes <= hist.span

\* A range whose full sun is exactly a quarter of the time recorded was
\* classified.
QuarterOfTheRangeInFullSun ==
    /\ hist.returned /\ hist.db /\ hist.err = "nil"
    /\ hist.span > 0 /\ 4 * hist.minutes = hist.span
    /\ hist.conditions.LightConditionInRange = "Partial Shade"


\* connectWithBackoff has returned: with a handle, or with the error.
ConnectReturnedHandle == boot.handle
ConnectReturnedError == boot.pc = "exited" /\ boot.fatal = "database" /\ ~boot.handle

\* C39: connectWithBackoff makes at most maxRetries attempts and always
\* returns: with the handle of the first attempt whose open and ping both
\* succeed, after which it makes no attempt, or, when every attempt failed,
\* with no handle and the error of the last attempt.
ConnectStopsAtFirstSuccess ==
    /\ [](boot.attempts <= maxRetries)
    /\ [](ConnectReturnedHandle
            => (boot.last = "nil" /\ boot.tries = boot.attempts - 1 /\ boot.pc # "db"))
    /\ [](ConnectReturnedError
            => (boot.attempts = maxRetries /\ boot.tries = maxRetries
                /\ boot.last # "nil" /\ boot.err = boot.last))
    /\ [](boot.pc = "db" => (~boot.handle /\ boot.tries = boot.attempts
                               /\ (boot.attempts > 0 => boot.last # "nil")))
    /\ [][/\ boot'.attempts \in {boot.attempts, boot.attempts + 1}
          /\ boot'.attempts # boot.attempts => boot.pc = "db"
          /\ boot.pc \notin {"probe", "db"} => boot'.pc # "db"
          /\ (boot.pc = "db" /\ boot'.pc = "db")
                => boot'.slept = boot.slept + 3 * boot'.attempts]_vars
    /\ (boot.pc = "db" ~> (ConnectReturnedHandle \/ ConnectReturnedError))

\* Three attempts failed, the last one on the ping: no handle, the error of
\* the third attempt, 3 + 6 + 9 seconds slept.
ThreeFailedAttempts ==
    /\ ConnectReturnedError /\ boot.attempts = maxRetries
    /\ boot.err = "ping failed" /\ boot.slept = 18

====
